---------------------------- MODULE Spec2Model ----------------------------
(***************************************************************************)
(* Model of the template reconciliation engine of gds-idea-app-kit:        *)
(* manifest.py (tracked files, hashing, build_manifest) and update.py      *)
(* (classify, plan, apply, report, manifest rewrite, run_update).          *)
(*                                                                         *)
(* A project directory is a map from absolute paths to file contents, a    *)
(* set of existing directories and the [tool.gds-idea-app-kit] record of   *)
(* pyproject.toml.  Contents are sequences of tokens; a template may hold  *)
(* the placeholder tokens {{app_name}}, {{python_version}} and             *)
(* {{python_version_nodot}} which rendering replaces.                      *)
(***************************************************************************)
EXTENDS Naturals, Sequences, FiniteSets, TLC

VARIABLES
  fs,          \* the files: absolute path -> content, for the paths that exist
  dirs,        \* the directories that exist below the project directory
  manifest,    \* the [tool.gds-idea-app-kit] record of pyproject.toml
  toolVersion, \* release number of the installed tool (see Version)
  templates,   \* template source path -> revision of the bundled template
  pc,          \* position of run_update: idle, apply, report, manifest, done
  run,         \* locals of the run_update call in progress
  out,         \* lines echoed by _report_updates in this run
  envOps,      \* number of user edits, deletions and tool upgrades so far
  runs,        \* number of run_update calls so far (bounded)
  edited,      \* path -> the user's own edit of it not yet given up, or None
  lastRun,     \* the previous completed run, while nothing else happened since
  expected,    \* end state of the interrupted run had it completed
  probe,       \* the call under study, in the specifications of single functions
  pyproject,   \* pyproject.toml without the manifest section, or None when missing
  stderr,      \* lines echoed with err=True by the run_update call in progress
  status       \* how the run_update call in progress has ended early, or None

vars == <<fs, dirs, manifest, toolVersion, templates, pc, run, out, envOps,
          runs, edited, lastRun, expected, probe, pyproject, stderr, status>>

----------------------------------------------------------------------------
(* Bounds of the model. *)

\* components of the versions given to _check_version
MaxParts == 2

\* words on the command line of the update command
MaxArgs == 2

\* user edits, deletions and tool upgrades in a behaviour
MaxEnvOps == 1
\* calls of run_update in a behaviour
MaxRuns == 2

----------------------------------------------------------------------------
(* Values. *)

\* Python's None, where a hash or nothing is expected
None == <<>>

ProjectDir == "/proj"

\* What a path holds when it is a directory and not a file
Directory == <<"#dir">>

\* Values of pyproject.toml that are neither a string nor a table: the
\* integer 1, and the string "oops" where a table is expected
NonStrings == {<<"#int", "1">>}
NonTables == {<<"#str", "oops">>}

IsStr(value) == value \notin NonStrings
IsTable(value) == value \notin NonTables

\* Exceptions, by name
AttributeError == "AttributeError"
IsADirectoryError == "IsADirectoryError"
ValueError == "ValueError"
Exceptions == {AttributeError, IsADirectoryError, ValueError}

Frameworks == {"streamlit", "dash", "fastapi"}

\* manifest.py: TOOL_OWNED_FILES, template source -> destination
TOOL_OWNED_FILES ==
  [src \in {"common/devcontainer.json", "common/docker-compose.yml",
            "dev_mocks/dev_mock_authoriser.json", "dev_mocks/dev_mock_user.json"} |->
     CASE src = "common/devcontainer.json" -> ".devcontainer/devcontainer.json"
       [] src = "common/docker-compose.yml" -> ".devcontainer/docker-compose.yml"
       [] src = "dev_mocks/dev_mock_authoriser.json" -> "dev_mocks/dev_mock_authoriser.json"
       [] src = "dev_mocks/dev_mock_user.json" -> "dev_mocks/dev_mock_user.json"]

\* manifest.py: FRAMEWORK_OWNED_FILES, template name -> destination
FRAMEWORK_OWNED_FILES == [name \in {"Dockerfile"} |-> "app_src/Dockerfile"]

\* get_tracked_files: the common files plus "<framework>/<name>" for each
\* framework-owned file.
get_tracked_files(framework) ==
  [src \in DOMAIN TOOL_OWNED_FILES
           \cup {framework \o "/" \o n : n \in DOMAIN FRAMEWORK_OWNED_FILES} |->
     IF src \in DOMAIN TOOL_OWNED_FILES
       THEN TOOL_OWNED_FILES[src]
       ELSE FRAMEWORK_OWNED_FILES[
              CHOOSE n \in DOMAIN FRAMEWORK_OWNED_FILES : src = framework \o "/" \o n]]

AllSrcs == UNION {DOMAIN get_tracked_files(f) : f \in Frameworks}
DestPaths == UNION {{get_tracked_files(f)[s] : s \in DOMAIN get_tracked_files(f)} : f \in Frameworks}

\* project_dir / dest_path
Join(dir, rel) == dir \o "/" \o rel

\* f"{dest_full}.new"
Sidecar(p) == p \o ".new"

TrackedFull == {Join(ProjectDir, d) : d \in DestPaths}
FsPaths == TrackedFull \cup {Sidecar(p) : p \in TrackedFull}

ProjectSubdirs == {Join(ProjectDir, d) : d \in {".devcontainer", "dev_mocks", "app_src"}}

\* Path.parent of the files of the project: the path without its last component
ParentOf ==
  [p \in FsPaths |->
     CHOOSE d \in ProjectSubdirs :
       \E n \in {"devcontainer.json", "docker-compose.yml",
                 "dev_mock_authoriser.json", "dev_mock_user.json", "Dockerfile"} :
         p \in {Join(d, n), Sidecar(Join(d, n))}]

PathParent(p) == ParentOf[p]

----------------------------------------------------------------------------
(* Strings as code points, for sorted(). *)

Codes(s) ==
  CASE s = "common/devcontainer.json" -> <<99, 111, 109, 109, 111, 110, 47, 100, 101, 118, 99, 111, 110, 116, 97, 105, 110, 101, 114, 46, 106, 115, 111, 110>>
    [] s = "common/docker-compose.yml" -> <<99, 111, 109, 109, 111, 110, 47, 100, 111, 99, 107, 101, 114, 45, 99, 111, 109, 112, 111, 115, 101, 46, 121, 109, 108>>
    [] s = "dev_mocks/dev_mock_authoriser.json" -> <<100, 101, 118, 95, 109, 111, 99, 107, 115, 47, 100, 101, 118, 95, 109, 111, 99, 107, 95, 97, 117, 116, 104, 111, 114, 105, 115, 101, 114, 46, 106, 115, 111, 110>>
    [] s = "dev_mocks/dev_mock_user.json" -> <<100, 101, 118, 95, 109, 111, 99, 107, 115, 47, 100, 101, 118, 95, 109, 111, 99, 107, 95, 117, 115, 101, 114, 46, 106, 115, 111, 110>>
    [] s = "streamlit/Dockerfile" -> <<115, 116, 114, 101, 97, 109, 108, 105, 116, 47, 68, 111, 99, 107, 101, 114, 102, 105, 108, 101>>
    [] s = "dash/Dockerfile" -> <<100, 97, 115, 104, 47, 68, 111, 99, 107, 101, 114, 102, 105, 108, 101>>
    [] s = "fastapi/Dockerfile" -> <<102, 97, 115, 116, 97, 112, 105, 47, 68, 111, 99, 107, 101, 114, 102, 105, 108, 101>>
    [] s = ".devcontainer/devcontainer.json" -> <<46, 100, 101, 118, 99, 111, 110, 116, 97, 105, 110, 101, 114, 47, 100, 101, 118, 99, 111, 110, 116, 97, 105, 110, 101, 114, 46, 106, 115, 111, 110>>
    [] s = ".devcontainer/docker-compose.yml" -> <<46, 100, 101, 118, 99, 111, 110, 116, 97, 105, 110, 101, 114, 47, 100, 111, 99, 107, 101, 114, 45, 99, 111, 109, 112, 111, 115, 101, 46, 121, 109, 108>>
    [] s = "app_src/Dockerfile" -> <<97, 112, 112, 95, 115, 114, 99, 47, 68, 111, 99, 107, 101, 114, 102, 105, 108, 101>>

\* Python's str.__lt__: the first differing code point decides, a proper
\* prefix is smaller.
RECURSIVE SeqLess(_, _)
SeqLess(a, b) ==
  IF b = <<>> THEN FALSE
  ELSE IF a = <<>> THEN TRUE
  ELSE IF Head(a) # Head(b) THEN Head(a) < Head(b)
  ELSE SeqLess(Tail(a), Tail(b))

StrLess(a, b) == SeqLess(Codes(a), Codes(b))

\* sorted(tracked.items()): pairs ordered by source path (the keys of a dict
\* are distinct, so the destination never decides).
RECURSIVE SortedSrcs(_)
SortedSrcs(S) ==
  IF S = {} THEN <<>>
  ELSE LET m == CHOOSE x \in S : \A y \in S \ {x} : StrLess(x, y)
       IN <<m>> \o SortedSrcs(S \ {m})

SortedItems(tracked) ==
  LET order == SortedSrcs(DOMAIN tracked)
  IN [i \in 1..Len(order) |->
        [template_src |-> order[i], dest_path |-> tracked[order[i]]]]

\* sorted(get_tracked_files(framework).items()) of every framework
SortedTracked == [f \in Frameworks |-> SortedItems(get_tracked_files(f))]

----------------------------------------------------------------------------
(* Contents, templates, rendering and hashing. *)

AppName == <<"test-app">>

\* DEFAULT_PYTHON_VERSION = "3.13", as the tokens of the string
DEFAULT_PYTHON_VERSION == <<"3", ".", "13">>

\* python_version.replace(".", "")
NoDot(version) == SelectSeq(version, LAMBDA t : t # ".")

\* f"{{{{{key}}}}}": the placeholder of a variable
Placeholder(key) == "{{" \o key \o "}}"

\* str.replace(old, new) on a token sequence
RECURSIVE Replace(_, _, _)
Replace(content, old, new) ==
  IF content = <<>> THEN <<>>
  ELSE (IF Head(content) = old THEN new ELSE <<Head(content)>>)
       \o Replace(Tail(content), old, new)

\* _apply_template_vars: replace {{key}} by value, one variable after the
\* other in the order of the dict
RECURSIVE _apply_template_vars(_, _)
_apply_template_vars(content, variables) ==
  IF variables = <<>> THEN content
  ELSE _apply_template_vars(
         Replace(content, Placeholder(Head(variables).key), Head(variables).value),
         Tail(variables))

\* run_update: template_vars of a manifest
TemplateVars(app_name, python_version) ==
  << [key |-> "app_name", value |-> app_name],
     [key |-> "python_version", value |-> python_version],
     [key |-> "python_version_nodot", value |-> NoDot(python_version)] >>

\* The bundled template of a source path at a revision (template_path.read_text()).
TemplateText(src, rev) ==
  <<src, "rev " \o ToString(rev),
    "{{app_name}}", "{{python_version}}", "{{python_version_nodot}}">>

\* _render_template
_render_template(tpl, src, template_vars) ==
  _apply_template_vars(TemplateText(src, tpl[src]), template_vars)

\* What the user types into a file
UserContents == {<<"user edit">>}

\* hash_file: "sha256:" followed by the digest of the bytes; the digest is
\* taken to be collision free, so it is the content itself under the tag.
hash_file(fsys, path) == <<"sha256", fsys[path]>>

----------------------------------------------------------------------------
(* The filesystem. *)

exists(fsys, path) == path \in DOMAIN fsys

\* write_text opening the file for appending instead of truncating it
write_text_Appends(st, path, content) ==
  IF PathParent(path) \in st.dirs
    THEN [st EXCEPT !.fs = (path :> (IF path \in DOMAIN st.fs THEN st.fs[path] ELSE <<>>)
                                      \o content) @@ st.fs]
    ELSE [st EXCEPT !.err = TRUE]

\* Path.write_text: fails (FileNotFoundError) when the parent directory is
\* missing, else creates or replaces the file.
write_text(st, path, content) ==
  IF PathParent(path) \in st.dirs
    THEN [st EXCEPT !.fs = (path :> content) @@ st.fs]
    ELSE [st EXCEPT !.err = TRUE]

\* Path.mkdir(parents=True, exist_ok=True)
mkdir(st, dir) == [st EXCEPT !.dirs = st.dirs \cup {dir}]

----------------------------------------------------------------------------
(* update.py: classify, plan, apply, report. *)

CREATE == "create"
UPDATE == "update"
SKIP == "skip"
FORCE == "force"

\* dict.get(key)
Get(dict, key) == IF key \in DOMAIN dict THEN dict[key] ELSE None

\* dict without a key, and with a key set
Without(dict, key) == [k \in DOMAIN dict \ {key} |-> dict[k]]
With(dict, key, value) == (key :> value) @@ dict

\* _classify_file with a file taken as modified whenever its hash is not the
\* recorded one, recorded or not
_classify_file_UnrecordedIsModified(fsys, dest_full, manifest_hashes, dest_path, force) ==
  IF ~exists(fsys, dest_full) THEN CREATE
  ELSE LET current_hash == hash_file(fsys, dest_full)
           manifest_hash == Get(manifest_hashes, dest_path)
           is_modified == current_hash # manifest_hash
       IN IF ~is_modified THEN UPDATE
          ELSE IF force THEN FORCE ELSE SKIP

\* _classify_file with force left out of the last decision
_classify_file_IgnoresForce(fsys, dest_full, manifest_hashes, dest_path, force) ==
  IF ~exists(fsys, dest_full) THEN CREATE
  ELSE LET current_hash == hash_file(fsys, dest_full)
           manifest_hash == Get(manifest_hashes, dest_path)
           is_modified == manifest_hash # None /\ current_hash # manifest_hash
       IN IF ~is_modified THEN UPDATE ELSE SKIP

\* _classify_file; hash_file raises IsADirectoryError (path.read_bytes()) when
\* the destination is a directory, and manifest_hashes.get raises
\* AttributeError when the files value of the manifest is not a table: the
\* name of the exception then stands for the action.
_classify_file(fsys, dest_full, manifest_hashes, dest_path, force) ==
  IF ~exists(fsys, dest_full) THEN CREATE
  ELSE IF fsys[dest_full] = Directory THEN IsADirectoryError
  ELSE IF ~IsTable(manifest_hashes) THEN AttributeError
  ELSE LET current_hash == hash_file(fsys, dest_full)
           manifest_hash == Get(manifest_hashes, dest_path)
           is_modified == manifest_hash # None /\ current_hash # manifest_hash
       IN IF ~is_modified THEN UPDATE
          ELSE IF force THEN FORCE ELSE SKIP

\* FileUpdate of one tracked file
PlanItem(fsys, project_dir, tpl, template_vars, manifest_hashes, force, entry) ==
  LET dest_full == Join(project_dir, entry.dest_path)
  IN [dest_path |-> entry.dest_path,
      dest_full |-> dest_full,
      new_content |-> _render_template(tpl, entry.template_src, template_vars),
      action |-> _classify_file(fsys, dest_full, manifest_hashes, entry.dest_path, force)]

\* The loop without the test "if not template_full.exists(): continue"
PlanLoop_KeepsMissing(items, fsys, project_dir, tpl, template_vars, manifest_hashes, force) ==
  [k \in 1..Len(items) |->
     PlanItem(fsys, project_dir, tpl, template_vars, manifest_hashes, force, items[k])]

\* The loop of _plan_updates over the sorted items; a template that does not
\* exist (revision 0) is passed over.
RECURSIVE PlanLoop(_, _, _, _, _, _, _)
PlanLoop(items, fsys, project_dir, tpl, template_vars, manifest_hashes, force) ==
  IF items = <<>> THEN <<>>
  ELSE (IF tpl[Head(items).template_src] = 0 THEN <<>>
        ELSE <<PlanItem(fsys, project_dir, tpl, template_vars, manifest_hashes,
                        force, Head(items))>>)
       \o PlanLoop(Tail(items), fsys, project_dir, tpl, template_vars,
                   manifest_hashes, force)

\* _plan_updates, given sorted(tracked.items())
_plan_updates(fsys, project_dir, items, tpl, template_vars, manifest_hashes, force) ==
  PlanLoop(items, fsys, project_dir, tpl, template_vars, manifest_hashes, force)

\* ApplyItem with the SKIP branch writing the destination itself
ApplyItem_SkipOverwrites(st, item) ==
  write_text(mkdir(st, PathParent(item.dest_full)), item.dest_full, item.new_content)

\* ApplyItem without the mkdir of the parent directory
ApplyItem_NoMkdir(st, item) ==
  IF item.action = SKIP
    THEN write_text(st, Sidecar(item.dest_full), item.new_content)
    ELSE write_text(st, item.dest_full, item.new_content)

\* ApplyItem tidying up: a write to the destination removes its sidecar
ApplyItem_RemovesSidecar(st, item) ==
  IF item.action = SKIP
    THEN write_text(st, Sidecar(item.dest_full), item.new_content)
    ELSE LET written == write_text(mkdir(st, PathParent(item.dest_full)),
                                   item.dest_full, item.new_content)
         IN [written EXCEPT !.fs = [p \in DOMAIN written.fs \ {Sidecar(item.dest_full)}
                                      |-> written.fs[p]]]

\* One iteration of the loop of _apply_updates, on st = [fs, dirs, err]
ApplyItem(st, item) ==
  IF item.action = SKIP
    THEN write_text(st, Sidecar(item.dest_full), item.new_content)
    ELSE write_text(mkdir(st, PathParent(item.dest_full)), item.dest_full,
                    item.new_content)

\* _apply_updates from item i on; an exception ends the loop
RECURSIVE ApplyFrom(_, _, _)
ApplyFrom(st, plan, i) ==
  IF i > Len(plan) \/ st.err THEN st
  ELSE ApplyFrom(ApplyItem(st, plan[i]), plan, i + 1)

_apply_updates(st, plan) == ApplyFrom(st, plan, 1)

\* Select with the FORCE items left out of every list
Select_DropsForce(plan, acts) ==
  SelectSeq(plan, LAMBDA item : item.action \in acts \ {FORCE})

\* The plan items whose action is one of acts, in plan order
Select(plan, acts) == SelectSeq(plan, LAMBDA item : item.action \in acts)

Blank == <<"">>

\* The three lines echoed for one skipped item
SkippedLines(item) ==
  << <<"  Skipped: ", item.dest_path, " (locally modified)">>,
     <<"    New version written to: ", Sidecar(item.dest_path)>>,
     <<"    Review changes: diff ", item.dest_path, " ", Sidecar(item.dest_path)>> >>

\* The lines of a loop that echoes SkippedLines for each item
RECURSIVE EchoSkipped(_)
EchoSkipped(items) ==
  IF items = <<>> THEN <<>>
  ELSE SkippedLines(Head(items)) \o EchoSkipped(Tail(items))

\* _report_updates: the lines echoed, in order
_report_updates(plan, dry_run) ==
  LET created == Select(plan, {CREATE})
      updated == Select(plan, {UPDATE, FORCE})
      skipped == Select(plan, {SKIP})
  IN [i \in 1..Len(created) |-> <<"  Created: ", created[i].dest_path>>]
     \o [i \in 1..Len(updated) |-> <<"  Updated: ", updated[i].dest_path>>]
     \o (IF skipped # <<>> THEN <<Blank>> \o EchoSkipped(skipped) ELSE <<>>)
     \o (IF created = <<>> /\ updated = <<>> /\ skipped = <<>>
           THEN << <<"  Nothing to update.">> >> ELSE <<>>)
     \o (IF skipped # <<>> /\ ~dry_run
           THEN << Blank,
                   <<ToString(Len(skipped)),
                     " file(s) were locally modified and skipped. Review the .new files above,">>,
                   <<"then rename or delete them when done.">> >>
           ELSE <<>>)
     \o (IF dry_run THEN << Blank, <<"No changes made (dry run).">> >> ELSE <<>>)

----------------------------------------------------------------------------
(* manifest.py: build_manifest; update.py: _update_manifest. *)

\* build_manifest over TOOL_OWNED_FILES alone, the framework's files forgotten
build_manifest_CommonOnly(framework, app_name, tool_version, fsys, project_dir) ==
  LET tracked == TOOL_OWNED_FILES
      dests == {tracked[src] : src \in DOMAIN tracked}
      file_hashes == [d \in {x \in dests : exists(fsys, Join(project_dir, x))} |->
                        hash_file(fsys, Join(project_dir, d))]
  IN [framework |-> framework,
      app_name |-> app_name,
      tool_version |-> tool_version,
      files |-> file_hashes]

\* build_manifest recording one fixed hash in place of the hash of each file
build_manifest_FixedHash(framework, app_name, tool_version, fsys, project_dir) ==
  LET tracked == get_tracked_files(framework)
      dests == {tracked[src] : src \in DOMAIN tracked}
      file_hashes == [d \in {x \in dests : exists(fsys, Join(project_dir, x))} |->
                        <<"sha256", <<>> >>]
  IN [framework |-> framework,
      app_name |-> app_name,
      tool_version |-> tool_version,
      files |-> file_hashes]

\* build_manifest: the hash of every tracked file that exists
build_manifest(framework, app_name, tool_version, fsys, project_dir) ==
  LET tracked == get_tracked_files(framework)
      dests == {tracked[src] : src \in DOMAIN tracked}
      file_hashes == [d \in {x \in dests : exists(fsys, Join(project_dir, x))} |->
                        hash_file(fsys, Join(project_dir, d))]
  IN [framework |-> framework,
      app_name |-> app_name,
      tool_version |-> tool_version,
      files |-> file_hashes]

\* manifest.py: MANIFEST_KEY
MANIFEST_KEY == "gds-idea-app-kit"

\* config.get("tool", {})
ToolOf(config) == IF "tool" \in DOMAIN config THEN config["tool"] ELSE <<>>

\* pyproject.toml as tomlkit loads it, a table of tables, put together from
\* the document without the manifest section and the manifest section (no
\* section when the manifest is empty); and the two parts of a document
Document(rest, man) ==
  IF DOMAIN man = {} THEN rest
  ELSE With(rest, "tool", With(ToolOf(rest), MANIFEST_KEY, man))

RestOf(config) ==
  IF "tool" \in DOMAIN config
    THEN With(config, "tool", Without(config["tool"], MANIFEST_KEY))
    ELSE config

\* read_manifest of a loaded document: config.get("tool", {}).get(MANIFEST_KEY, {})
ManifestOf(config) ==
  IF MANIFEST_KEY \in DOMAIN ToolOf(config) THEN ToolOf(config)[MANIFEST_KEY] ELSE <<>>

\* write_manifest with the new record laid over the section that is there
write_manifest_Merges(config, new_manifest) ==
  LET with_tool == IF "tool" \in DOMAIN config THEN config ELSE With(config, "tool", <<>>)
  IN With(with_tool, "tool",
          With(with_tool["tool"], MANIFEST_KEY, new_manifest @@ ManifestOf(config)))

\* write_manifest with the tool table made anew around the record
write_manifest_ReplacesTool(config, new_manifest) ==
  With(config, "tool", (MANIFEST_KEY :> new_manifest))

\* write_manifest, on the document that tomlkit.load gives and tomlkit.dump
\* takes: the tool table is made when missing, the manifest section is set
write_manifest(config, new_manifest) ==
  LET with_tool == IF "tool" \in DOMAIN config THEN config ELSE With(config, "tool", <<>>)
  IN With(with_tool, "tool", With(with_tool["tool"], MANIFEST_KEY, new_manifest))

\* _update_manifest without the parameter python_version: the default is
\* recorded
_update_manifest_DefaultPython(fsys, project_dir, version, framework, app_name, python_version) ==
  ("python_version" :> DEFAULT_PYTHON_VERSION)
    @@ build_manifest(framework, app_name, version, fsys, project_dir)

\* _update_manifest: the record that write_manifest puts in place of the
\* [tool.gds-idea-app-kit] section
_update_manifest(fsys, project_dir, version, framework, app_name, python_version) ==
  ("python_version" :> python_version)
    @@ build_manifest(framework, app_name, version, fsys, project_dir)

\* manifest.get("python_version", "3.13")
PythonVersionOf(man) ==
  IF "python_version" \in DOMAIN man THEN man.python_version ELSE DEFAULT_PYTHON_VERSION

\* has_writes of run_update
HasWrites(plan) == \E i \in 1..Len(plan) : plan[i].action \in {CREATE, UPDATE, FORCE}

\* manifest.get("files", {})
FilesOf(man) == IF "files" \in DOMAIN man THEN man.files ELSE <<>>

\* The plan of run_update for a project state
PlanOf(fsys, man, tpl, force) ==
  _plan_updates(fsys, ProjectDir, SortedTracked[man.framework], tpl,
                TemplateVars(man.app_name, PythonVersionOf(man)), FilesOf(man), force)

\* The exception that ends _plan_updates: the one of the first item, in plan
\* order, whose classification raises; None when none does
RECURSIVE PlanRaised(_)
PlanRaised(plan) ==
  IF plan = <<>> THEN None
  ELSE IF Head(plan).action \in Exceptions THEN <<Head(plan).action>>
  ELSE PlanRaised(Tail(plan))

\* run_update from the plan on, run to its end without interruption:
\* the files, directories and manifest it leaves
RunToEnd(fsys, ds, man, version, tpl, dry_run, force) ==
  LET plan == PlanOf(fsys, man, tpl, force)
      st0 == [fs |-> fsys, dirs |-> ds, err |-> FALSE]
      st == IF dry_run THEN st0 ELSE _apply_updates(st0, plan)
  IN [fs |-> st.fs,
      dirs |-> st.dirs,
      manifest |-> IF ~dry_run /\ ~st.err /\ HasWrites(plan)
                     THEN _update_manifest(st.fs, ProjectDir, version, man.framework,
                                           man.app_name, PythonVersionOf(man))
                     ELSE man]

----------------------------------------------------------------------------
(* update.py: the checks of run_update before planning. *)

\* "not x" of a value got with dict.get: the key is missing or the value is
\* the empty one of its type
NotSet(dict, key, empty) == key \notin DOMAIN dict \/ dict[key] = empty

\* read_manifest: the manifest section, {} when there is no pyproject.toml
\* or no section
read_manifest(pp, man) == IF pp = None THEN <<>> ELSE man

\* Preflight with sys.exit() in place of sys.exit(1) in the last check
Preflight_ExitsWithoutCode(pp, man) ==
  IF pp = None
    THEN [code |-> <<"1">>,
          err |-> << <<"Error: No pyproject.toml found. Are you in a project root?">> >>]
  ELSE IF DOMAIN read_manifest(pp, man) = {}
    THEN [code |-> <<"1">>,
          err |-> << <<"Error: No [tool.gds-idea-app-kit] section found in pyproject.toml.">>,
                     <<"  This doesn't look like a project created by idea-app.">> >>]
  ELSE IF NotSet(man, "framework", "") \/ NotSet(man, "app_name", <<>>)
    THEN [code |-> <<"0">>,
          err |-> << <<"Error: Manifest is missing framework or app_name.">> >>]
  ELSE [code |-> None, err |-> <<>>]

\* run_update, lines 273-294: the three fatal preconditions; code is the
\* argument of sys.exit, None when run_update goes on
Preflight(pp, man) ==
  IF pp = None
    THEN [code |-> <<"1">>,
          err |-> << <<"Error: No pyproject.toml found. Are you in a project root?">> >>]
  ELSE IF DOMAIN read_manifest(pp, man) = {}
    THEN [code |-> <<"1">>,
          err |-> << <<"Error: No [tool.gds-idea-app-kit] section found in pyproject.toml.">>,
                     <<"  This doesn't look like a project created by idea-app.">> >>]
  ELSE IF NotSet(man, "framework", "") \/ NotSet(man, "app_name", <<>>)
    THEN [code |-> <<"1">>,
          err |-> << <<"Error: Manifest is missing framework or app_name.">> >>]
  ELSE [code |-> None, err |-> <<>>]

\* int(x) of the components a version is made of: decimal numerals, with
\* or without a leading zero
IntTable ==
  [c \in {ToString(n) : n \in 0..12} |-> CHOOSE n \in 0..12 : ToString(n) = c]
    @@ [c \in {"0" \o ToString(n) : n \in 0..9} |->
          CHOOSE n \in 0..9 : "0" \o ToString(n) = c]

\* _parse_version of a version given as its components, version.split("."):
\* AttributeError when the value is not a string, ValueError when a
\* component is not a numeral, else the tuple of integers
_parse_version(version) ==
  IF ~IsStr(version) THEN [raised |-> <<AttributeError>>, value |-> <<>>]
  ELSE IF \E i \in 1..Len(version) : version[i] \notin DOMAIN IntTable
    THEN [raised |-> <<ValueError>>, value |-> <<>>]
  ELSE [raised |-> None, value |-> [i \in 1..Len(version) |-> IntTable[version[i]]]]

\* The components of a version with the dots between them
RECURSIVE Dotted(_)
Dotted(version) ==
  IF Len(version) <= 1 THEN version
  ELSE <<Head(version), ".">> \o Dotted(Tail(version))

\* What _check_version does when nothing is to be said
Silent == [err |-> <<>>, out |-> <<>>, raised |-> None]

\* The exceptions _check_version catches
Caught == {ValueError, "TypeError"}

\* What _check_version does with an exception of _parse_version
Except(raised) == IF raised[1] \in Caught THEN Silent ELSE [Silent EXCEPT !.raised = raised]

\* _check_version: the lines echoed with err=True, the lines echoed to
\* standard output and the exception that leaves it, if any.  The running
\* version is parsed first.
_check_version(version, man) ==
  LET manifest_version ==
        IF "tool_version" \in DOMAIN man THEN man.tool_version ELSE <<"0", "0", "0">>
      running == _parse_version(version)
      recorded == _parse_version(manifest_version)
  IN IF running.raised # None THEN Except(running.raised)
     ELSE IF recorded.raised # None THEN Except(recorded.raised)
     ELSE IF SeqLess(running.value, recorded.value)
       THEN [err |-> << <<"Warning: This project was created with gds-idea-app-kit ">>
                          \o Dotted(manifest_version) \o <<", but you have ">>
                          \o Dotted(version) \o <<" installed.">>,
                        <<"  Consider upgrading: uv tool upgrade gds-idea-app-kit">> >>,
             out |-> <<Blank>>,
             raised |-> None]
     ELSE Silent

----------------------------------------------------------------------------
(* The state machine. *)

\* __version__ of release n of the tool, as the components of "0.n.0"
ToolRelease(n) == <<"0", ToString(n), "0">>

\* __version__ of the installed tool
Version == ToolRelease(toolVersion)

\* The tracked files of a framework, as absolute paths
TrackedOf ==
  [f \in Frameworks |->
     {Join(ProjectDir, get_tracked_files(f)[src]) : src \in DOMAIN get_tracked_files(f)}]

Tracked(man) == TrackedOf[man.framework]

\* The relative path of a tracked absolute path
RelTable == [p \in TrackedFull |-> CHOOSE d \in DestPaths : Join(ProjectDir, d) = p]

RelOf(p) == RelTable[p]

\* A tracked file is locally modified when it exists, the manifest records
\* a hash for it and its content has another hash.
LocallyModified(fsys, man, p) ==
  /\ exists(fsys, p)
  /\ RelOf(p) \in DOMAIN FilesOf(man)
  /\ FilesOf(man)[RelOf(p)] # <<"sha256", fsys[p]>>

\* Every tracked file that exists has the content the manifest records.
Clean(fsys, man) ==
  \A p \in Tracked(man) :
    exists(fsys, p) =>
      RelOf(p) \in DOMAIN FilesOf(man)
        /\ FilesOf(man)[RelOf(p)] = <<"sha256", fsys[p]>>

NoRun == <<>>
Cur == run[1]

\* pyproject.toml of a new project outside the manifest section
\* (tests/conftest.py, fixture project_dir)
OtherSections ==
  ("project" :> ("name" :> <<"test-app">>)) @@ ("tool" :> <<>>)

\* A project as the init command leaves it (tests/test_update.py, fixture
\* update_project): every tracked file rendered from its template, the
\* manifest built from the files.
FreshFiles(framework, tpl) ==
  LET tracked == get_tracked_files(framework)
  IN [p \in {Join(ProjectDir, tracked[src]) : src \in DOMAIN tracked} |->
        LET src == CHOOSE x \in DOMAIN tracked : Join(ProjectDir, tracked[x]) = p
        IN _render_template(tpl, src, TemplateVars(AppName, DEFAULT_PYTHON_VERSION))]

InitProject(framework) ==
  /\ toolVersion = 1
  /\ templates = [src \in AllSrcs |-> 1]
  /\ fs = FreshFiles(framework, templates)
  /\ dirs = {PathParent(p) : p \in DOMAIN fs}
  /\ manifest = _update_manifest(fs, ProjectDir, Version, framework, AppName,
                                 DEFAULT_PYTHON_VERSION)
  /\ pc = "idle"
  /\ run = NoRun
  /\ out = <<>>
  /\ envOps = 0
  /\ runs = 0
  /\ edited = <<>>
  /\ lastRun = <<>>
  /\ expected = <<>>
  /\ pyproject = <<OtherSections>>
  /\ stderr = <<>>
  /\ status = None

Init ==
  /\ InitProject("streamlit")
  /\ probe = <<>>

\* The first echo of run_update
Header(dry_run, force) ==
  IF dry_run THEN <<"Dry run: showing what would change...">>
  ELSE IF force THEN <<"Updating gds-idea-app-kit managed files (force)...">>
  ELSE <<"Updating gds-idea-app-kit managed files...">>

\* AfterPlan with the test of dry_run left out
AfterPlan_IgnoresDryRun(dry_run, plan) ==
  IF plan = <<>> THEN "report" ELSE "apply"

\* AfterReport with the manifest never rewritten
AfterReport_NeverRewrites(dry_run, plan) == "done"

\* "if not dry_run: _apply_updates(plan)": where run_update goes after planning
AfterPlan(dry_run, plan) ==
  IF dry_run \/ plan = <<>> THEN "report" ELSE "apply"

\* AfterReport rewriting the manifest after every run that is not a dry run
AfterReport_AnyPlan(dry_run, plan) ==
  IF ~dry_run THEN "manifest" ELSE "done"

\* "if not dry_run and has_writes: _update_manifest(...)": where run_update
\* goes after the report
AfterReport(dry_run, plan) ==
  IF ~dry_run /\ HasWrites(plan) THEN "manifest" ELSE "done"

\* run_update ends before its plan is made: by sys.exit(code), or by an
\* exception that nothing catches (outcome: its name and the function that
\* raised it)
EndsEarly(how, outcome, err_lines, out_lines) ==
  /\ pc' = how
  /\ status' = outcome
  /\ stderr' = err_lines
  /\ out' = out_lines
  /\ run' = NoRun

\* run_update up to and including _plan_updates
run_update(dry_run, force) ==
  /\ pc = "idle"
  /\ runs < MaxRuns
  /\ LET pre == Preflight(pyproject, manifest)
     IN IF pre.code # None
          THEN EndsEarly("exited", pre.code, pre.err, <<>>)
          ELSE
            LET chk == _check_version(Version, manifest)
            IN IF chk.raised # None
                 THEN EndsEarly("raised", chk.raised \o <<"_check_version">>,
                                chk.err, chk.out)
                 ELSE
                   LET plan == PlanOf(fs, manifest, templates, force)
                       head == chk.out \o <<Header(dry_run, force), Blank>>
                   IN IF PlanRaised(plan) # None
                        THEN EndsEarly("raised",
                                       PlanRaised(plan) \o <<"_plan_updates">>,
                                       chk.err, head)
                        ELSE
                          /\ run' = << [dry_run |-> dry_run, force |-> force,
                                        plan |-> plan, i |-> 1,
                                        framework |-> manifest.framework,
                                        app_name |-> manifest.app_name,
                                        python_version |-> PythonVersionOf(manifest),
                                        fs0 |-> fs, dirs0 |-> dirs,
                                        manifest0 |-> manifest] >>
                          /\ pc' = AfterPlan(dry_run, plan)
                          /\ out' = head
                          /\ stderr' = chk.err
                          /\ status' = None
  /\ runs' = runs + 1
  /\ expected' = IF expected # <<>> /\ ~dry_run /\ expected[1].force = force
                   THEN expected ELSE <<>>
  /\ UNCHANGED <<fs, dirs, manifest, toolVersion, templates, envOps,
                 edited, lastRun, pyproject>>

\* A call of run_update
StartRun(dry_run, force) ==
  /\ run_update(dry_run, force)
  /\ UNCHANGED probe

\* One iteration of the loop of _apply_updates
ApplyStep ==
  /\ pc = "apply"
  /\ LET item == Cur.plan[Cur.i]
         st == ApplyItem([fs |-> fs, dirs |-> dirs, err |-> FALSE], item)
     IN /\ fs' = st.fs
        /\ dirs' = st.dirs
        /\ pc' = IF st.err THEN "raised"
                 ELSE IF Cur.i = Len(Cur.plan) THEN "report" ELSE "apply"
        /\ edited' = IF Cur.force /\ item.action # SKIP
                       THEN [p \in DOMAIN edited \ {item.dest_full} |-> edited[p]]
                       ELSE edited
  /\ run' = <<[Cur EXCEPT !.i = @ + 1]>>
  /\ UNCHANGED <<manifest, toolVersion, templates, out, envOps, runs,
                 lastRun, expected, probe, pyproject, stderr, status>>

\* _report_updates, then the test of has_writes
Report ==
  /\ pc = "report"
  /\ out' = out \o _report_updates(Cur.plan, Cur.dry_run)
  /\ pc' = AfterReport(Cur.dry_run, Cur.plan)
  /\ UNCHANGED <<fs, dirs, manifest, toolVersion, templates, run, envOps, runs,
                 edited, lastRun, expected, probe, pyproject, stderr, status>>

\* _update_manifest
UpdateManifest ==
  /\ pc = "manifest"
  /\ out' = out \o <<Blank, <<"Updating manifest...">>>>
  /\ LET config == write_manifest(
                     Document(pyproject[1], manifest),
                     _update_manifest(fs, ProjectDir, Version, Cur.framework,
                                      Cur.app_name, Cur.python_version))
     IN /\ manifest' = ManifestOf(config)
        /\ pyproject' = <<RestOf(config)>>
  /\ pc' = "done"
  /\ UNCHANGED <<fs, dirs, toolVersion, templates, run, envOps, runs,
                 edited, lastRun, expected, probe, stderr, status>>

\* run_update returns (or sys.exit or an exception has left it)
Return ==
  /\ pc \in {"done", "raised", "exited"}
  /\ pc' = "idle"
  /\ run' = NoRun
  /\ out' = <<>>
  /\ stderr' = <<>>
  /\ status' = None
  /\ lastRun' = IF pc = "done"
                  THEN << [dry_run |-> Cur.dry_run, force |-> Cur.force,
                           plan |-> Cur.plan,
                           clean |-> Clean(Cur.fs0, Cur.manifest0)] >>
                  ELSE <<>>
  /\ expected' = <<>>
  /\ UNCHANGED <<fs, dirs, manifest, toolVersion, templates, envOps, runs,
                 edited, probe, pyproject>>

\* The process is killed during Apply: the files written so far stay, the
\* manifest is not rewritten.
Crash ==
  /\ pc = "apply"
  /\ pc' = "idle"
  /\ run' = NoRun
  /\ out' = <<>>
  /\ stderr' = <<>>
  /\ status' = None
  /\ lastRun' = <<>>
  /\ expected' = << [force |-> Cur.force, written |-> Cur.i - 1,
                     end |-> RunToEnd(Cur.fs0, Cur.dirs0, Cur.manifest0, Version,
                                      templates, FALSE, Cur.force)] >>
  /\ UNCHANGED <<fs, dirs, manifest, toolVersion, templates, envOps, runs,
                 edited, probe, pyproject>>

\* What every action of the user or of a tool upgrade does to the history
Touched ==
  /\ lastRun' = <<>>
  /\ expected' = <<>>
  /\ UNCHANGED <<pc, run, out, runs, probe, pyproject, stderr, status>>

\* The user writes a tracked file
UserEdit(p, content) ==
  /\ pc = "idle"
  /\ envOps < MaxEnvOps
  /\ PathParent(p) \in dirs
  /\ ~(exists(fs, p) /\ fs[p] = content)
  /\ fs' = (p :> content) @@ fs
  /\ edited' = (p :> content) @@ edited
  /\ envOps' = envOps + 1
  /\ Touched
  /\ UNCHANGED <<dirs, manifest, toolVersion, templates>>

\* The user deletes a tracked file
UserDelete(p) ==
  /\ pc = "idle"
  /\ envOps < MaxEnvOps
  /\ exists(fs, p)
  /\ fs' = [q \in DOMAIN fs \ {p} |-> fs[q]]
  /\ edited' = [q \in DOMAIN edited \ {p} |-> edited[q]]
  /\ envOps' = envOps + 1
  /\ Touched
  /\ UNCHANGED <<dirs, manifest, toolVersion, templates>>

\* The user removes a directory with everything in it
UserRemoveDir(d) ==
  /\ pc = "idle"
  /\ envOps < MaxEnvOps
  /\ d \in dirs
  /\ dirs' = dirs \ {d}
  /\ fs' = [q \in {x \in DOMAIN fs : PathParent(x) # d} |-> fs[q]]
  /\ edited' = [q \in {x \in DOMAIN edited : PathParent(x) # d} |-> edited[q]]
  /\ envOps' = envOps + 1
  /\ Touched
  /\ UNCHANGED <<manifest, toolVersion, templates>>

\* The user takes the new version: mv p.new p
UserAcceptSidecar(p) ==
  /\ pc = "idle"
  /\ exists(fs, Sidecar(p))
  /\ fs' = (p :> fs[Sidecar(p)]) @@ [q \in DOMAIN fs \ {Sidecar(p)} |-> fs[q]]
  /\ edited' = [q \in DOMAIN edited \ {p} |-> edited[q]]
  /\ Touched
  /\ UNCHANGED <<dirs, manifest, toolVersion, templates, envOps>>

\* uv tool upgrade: the next release, in which the templates in changed
\* differ; several changed templates are several successive releases
ToolUpgrade(changed) ==
  /\ pc = "idle"
  /\ envOps < MaxEnvOps
  /\ envOps' = envOps + 1
  /\ toolVersion' = toolVersion + 1
  /\ templates' = [src \in AllSrcs |->
                     IF src \in changed THEN toolVersion + 1 ELSE templates[src]]
  /\ Touched
  /\ UNCHANGED <<fs, dirs, manifest, edited>>

Next ==
  \/ \E dry_run \in BOOLEAN, force \in BOOLEAN : StartRun(dry_run, force)
  \/ ApplyStep
  \/ Report
  \/ UpdateManifest
  \/ Return
  \/ Crash
  \/ \E p \in Tracked(manifest), content \in UserContents : UserEdit(p, content)
  \/ \E p \in Tracked(manifest) : UserDelete(p)
  \/ \E d \in ProjectSubdirs : UserRemoveDir(d)
  \/ \E p \in Tracked(manifest) : UserAcceptSidecar(p)
  \/ \E changed \in {S \in SUBSET DOMAIN get_tracked_files(manifest.framework) :
                        Cardinality(S) <= 1} :
       ToolUpgrade(changed)

Spec == Init /\ [][Next]_vars

----------------------------------------------------------------------------
(* _classify_file on its own: one call on enumerated inputs. *)

ProbeContents == {<<"original content">>, <<"modified content">>, <<"other content">>}

\* The inputs of one call: the file (absent, or its content), the entry of
\* the manifest for the path (absent, or a hash) and force.
ClassifyInit ==
  /\ InitProject("streamlit")
  /\ \E path \in TrackedFull,
        file \in {<<>>} \cup {<<c>> : c \in ProbeContents},
        entry \in {<<>>} \cup {<< <<"sha256", c>> >> : c \in ProbeContents},
        force \in BOOLEAN :
       probe = << [path |-> path, file |-> file, entry |-> entry, force |-> force,
                   result |-> "pending"] >>

Classify ==
  /\ probe # <<>>
  /\ probe[1].result = "pending"
  /\ LET x == probe[1]
         fsys == IF x.file = <<>> THEN <<>> ELSE (x.path :> x.file[1])
         manifest_hashes == IF x.entry = <<>> THEN <<>> ELSE (RelOf(x.path) :> x.entry[1])
     IN probe' = << [x EXCEPT !.result =
                       _classify_file(fsys, x.path, manifest_hashes, RelOf(x.path),
                                      x.force)] >>
  /\ UNCHANGED <<fs, dirs, manifest, toolVersion, templates, pc, run, out, envOps,
                 runs, edited, lastRun, expected, pyproject, stderr, status>>

SpecClassify == ClassifyInit /\ [][Classify]_vars

----------------------------------------------------------------------------
(* run_update on a project whose pyproject.toml and tracked files were       *)
(* changed by hand: one run from each such project.                          *)

\* What the user may have done to pyproject.toml
HandEdits ==
  {"none", "no pyproject", "no section", "no framework", "no app_name",
   "empty framework", "empty app_name", "no tool_version", "tool_version newer",
   "tool_version older", "tool_version not numeric", "tool_version malformed",
   "tool_version not a string", "no files", "files not a table"}

\* pyproject.toml after the edit: pp the file without the manifest section
\* (None when deleted), man the manifest section
HandEdit(pp, man, e) ==
  CASE e = "none" -> [pp |-> pp, man |-> man]
    [] e = "no pyproject" -> [pp |-> None, man |-> <<>>]
    [] e = "no section" -> [pp |-> pp, man |-> <<>>]
    [] e = "no framework" -> [pp |-> pp, man |-> Without(man, "framework")]
    [] e = "no app_name" -> [pp |-> pp, man |-> Without(man, "app_name")]
    [] e = "empty framework" -> [pp |-> pp, man |-> With(man, "framework", "")]
    [] e = "empty app_name" -> [pp |-> pp, man |-> With(man, "app_name", <<>>)]
    [] e = "no tool_version" -> [pp |-> pp, man |-> Without(man, "tool_version")]
    [] e = "tool_version newer" ->
         [pp |-> pp, man |-> With(man, "tool_version", <<"0", "10", "0">>)]
    [] e = "tool_version older" ->
         [pp |-> pp, man |-> With(man, "tool_version", <<"0", "0", "9">>)]
    [] e = "tool_version not numeric" ->
         [pp |-> pp, man |-> With(man, "tool_version", <<"0", "2", "0rc1">>)]
    [] e = "tool_version malformed" ->
         [pp |-> pp, man |-> With(man, "tool_version", <<"1", "", "2">>)]
    [] e = "tool_version not a string" ->
         [pp |-> pp, man |-> With(man, "tool_version", <<"#int", "1">>)]
    [] e = "no files" -> [pp |-> pp, man |-> Without(man, "files")]
    [] e = "files not a table" ->
         [pp |-> pp, man |-> With(man, "files", <<"#str", "oops">>)]

\* What the user may have done to one tracked path
PathEdits == {"edited", "deleted", "directory"}

PathEdit(fsys, p, e) ==
  CASE e = "edited" -> (p :> <<"user edit">>) @@ fsys
    [] e = "deleted" -> [q \in DOMAIN fsys \ {p} |-> fsys[q]]
    [] e = "directory" -> (p :> Directory) @@ fsys

HandEditedInit ==
  /\ toolVersion = 1
  /\ templates = [src \in AllSrcs |-> 1]
  /\ \E e \in HandEdits :
       LET fresh == FreshFiles("streamlit", templates)
           h == HandEdit(<<OtherSections>>,
                         _update_manifest(fresh, ProjectDir, Version, "streamlit",
                                          AppName, DEFAULT_PYTHON_VERSION), e)
       IN /\ manifest = h.man
          /\ pyproject = h.pp
          /\ \/ fs = fresh
             \/ \E p \in TrackedOf["streamlit"], pe \in PathEdits :
                  fs = PathEdit(fresh, p, pe)
  /\ dirs = ProjectSubdirs
  /\ pc = "idle"
  /\ run = NoRun
  /\ out = <<>>
  /\ stderr = <<>>
  /\ status = None
  /\ envOps = MaxEnvOps
  /\ runs = MaxRuns - 1
  /\ edited = <<>>
  /\ lastRun = <<>>
  /\ expected = <<>>
  /\ probe = <<>>

NextRun ==
  \/ \E dry_run \in BOOLEAN, force \in BOOLEAN : StartRun(dry_run, force)
  \/ ApplyStep
  \/ Report
  \/ UpdateManifest
  \/ Return

SpecHandEdited == HandEditedInit /\ [][NextRun]_vars

----------------------------------------------------------------------------
(* _check_version on its own: one call on enumerated versions. *)

\* The components of the versions: numerals, a word and the empty string
Components == {"0", "1", "2", "10", "x", ""}

\* The strings with at most MaxParts components between the dots
VersionStrings == UNION {[1..n -> Components] : n \in 1..MaxParts}

\* The inputs of one call: __version__ and the tool_version of the manifest
\* (missing, a string, or the integer 1)
VersionInit ==
  /\ InitProject("streamlit")
  /\ \E running \in VersionStrings,
        recorded \in {<<>>} \cup {<<v>> : v \in VersionStrings \cup NonStrings} :
       probe = << [running |-> running, recorded |-> recorded,
                   err |-> <<>>, out |-> <<>>, raised |-> None, called |-> FALSE] >>

CheckVersion ==
  /\ probe # <<>>
  /\ ~probe[1].called
  /\ LET x == probe[1]
         man == IF x.recorded = <<>> THEN <<>> ELSE ("tool_version" :> x.recorded[1])
         r == _check_version(x.running, man)
     IN probe' = << [x EXCEPT !.err = r.err, !.out = r.out, !.raised = r.raised,
                              !.called = TRUE] >>
  /\ UNCHANGED <<fs, dirs, manifest, toolVersion, templates, pc, run, out, envOps,
                 runs, edited, lastRun, expected, pyproject, stderr, status>>

SpecVersion == VersionInit /\ [][CheckVersion]_vars

----------------------------------------------------------------------------
(* manifest.py on its own: build_manifest, write_manifest, read_manifest on  *)
(* a project with any of the tracked files and any pyproject.toml of a few. *)

\* The manifest section of tests/conftest.py (project_with_manifest)
OldManifest ==
  [framework |-> "streamlit",
   app_name |-> <<"test-app">>,
   tool_version |-> <<"0", "1", "0">>,
   python_version |-> DEFAULT_PYTHON_VERSION,
   files |-> ("app_src/Dockerfile" :> <<"sha256", <<"abc123">> >>)
             @@ (".devcontainer/devcontainer.json" :> <<"sha256", <<"def456">> >>)]

\* pyproject.toml with a [project] table only
ProjectSection == ("project" :> ("name" :> <<"test-app">>))

\* pyproject.toml of a project made from the old template
\* (tests/test_migrate.py, OLD_PYPROJECT)
OLD_PYPROJECT ==
  ("build-system" :> ("build-backend" :> <<"uv_build">>))
  @@ ("project" :> (("name" :> <<"gds-idea-templates">>)
                    @@ ("scripts" :> ("configure" :> <<"template.configure:main">>))))
  @@ ("tool" :> (("uv" :> (("package" :> <<"true">>)
                           @@ ("dev-dependencies" :> <<"pytest>=6.2.5">>)
                           @@ ("build-backend" :> ("module-name" :> <<"template">>))))
                 @@ ("webapp" :> (("app_name" :> AppName)
                                  @@ ("framework" :> "streamlit")
                                  @@ ("dev" :> <<>>)))))

\* The pyproject.toml files a project starts from: the part without the
\* manifest section, and the manifest section (empty: no section)
Pyprojects ==
  {[rest |-> ProjectSection, man |-> <<>>],
   [rest |-> OtherSections, man |-> <<>>],
   [rest |-> OLD_PYPROJECT, man |-> <<>>],
   [rest |-> OtherSections, man |-> OldManifest],
   [rest |-> OLD_PYPROJECT, man |-> OldManifest]}

ManifestIOInit ==
  /\ toolVersion = 1
  /\ templates = [src \in AllSrcs |-> 1]
  /\ \E present \in SUBSET TrackedFull :
       fs = [p \in present |-> <<"content for", RelOf(p)>>]
  /\ dirs = {PathParent(p) : p \in DOMAIN fs}
  /\ \E doc \in Pyprojects, framework \in Frameworks :
       /\ pyproject = <<doc.rest>>
       /\ manifest = doc.man
       /\ probe = << [framework |-> framework,
                      before |-> Document(doc.rest, doc.man),
                      built |-> <<>>,
                      result |-> <<>>,
                      step |-> "start"] >>
  /\ pc = "idle"
  /\ run = NoRun
  /\ out = <<>>
  /\ envOps = MaxEnvOps
  /\ runs = MaxRuns
  /\ edited = <<>>
  /\ lastRun = <<>>
  /\ expected = <<>>
  /\ stderr = <<>>
  /\ status = None

\* manifest = build_manifest(...); write_manifest(project_dir, manifest)
BuildAndWrite ==
  /\ probe # <<>>
  /\ probe[1].step = "start"
  /\ LET new_manifest == build_manifest(probe[1].framework, AppName, Version,
                                        fs, ProjectDir)
         config == write_manifest(Document(pyproject[1], manifest), new_manifest)
     IN /\ manifest' = ManifestOf(config)
        /\ pyproject' = <<RestOf(config)>>
        /\ probe' = << [probe[1] EXCEPT !.built = new_manifest, !.step = "written"] >>
  /\ UNCHANGED <<fs, dirs, toolVersion, templates, pc, run, out, envOps, runs,
                 edited, lastRun, expected, stderr, status>>

\* result = read_manifest(project_dir)
ReadBack ==
  /\ probe # <<>>
  /\ probe[1].step = "written"
  /\ probe' = << [probe[1] EXCEPT
                    !.result = read_manifest(pyproject,
                                 ManifestOf(Document(pyproject[1], manifest))),
                    !.step = "read"] >>
  /\ UNCHANGED <<fs, dirs, manifest, toolVersion, templates, pc, run, out, envOps,
                 runs, edited, lastRun, expected, pyproject, stderr, status>>

NextManifestIO == BuildAndWrite \/ ReadBack

SpecManifestIO == ManifestIOInit /\ [][NextManifestIO]_vars

----------------------------------------------------------------------------
(* cli.py: the update command, from the command line to run_update.          *)

\* Words of a command line after "idea-app update"
ArgTokens == {"--dry-run", "--force", "--help", "extra"}

\* The words that click takes for options (they begin with a dash)
OptionLike == {"--dry-run", "--force", "--help"}

\* The command lines
Argvs == UNION {[1..n -> ArgTokens] : n \in 0..MaxArgs}

\* The options of the update command: the one @click.option of cli.py, and
\* the --help that click gives every command
UpdateOptions == {"--dry-run", "--help"}

\* click parsing argv for the update command: an unknown option is a usage
\* error (exit code 2), then --help prints the help and exits 0, then a word
\* that is no option is a usage error; otherwise the callback is invoked
ParseUpdate(argv) ==
  LET words == {argv[i] : i \in 1..Len(argv)}
  IN IF \E w \in words : w \in OptionLike /\ w \notin UpdateOptions
       THEN [exit |-> <<"2">>, err |-> <<"Error: No such option">>, out |-> <<>>,
             dry_run |-> FALSE]
     ELSE IF "--help" \in words
       THEN [exit |-> <<"0">>, err |-> <<>>,
             out |-> <<"Usage: idea-app update [OPTIONS]", "--dry-run", "--help">>,
             dry_run |-> FALSE]
     ELSE IF \E w \in words : w \notin OptionLike
       THEN [exit |-> <<"2">>, err |-> <<"Error: Got unexpected extra argument">>,
             out |-> <<>>, dry_run |-> FALSE]
     ELSE [exit |-> None, err |-> <<>>, out |-> <<>>,
           dry_run |-> "--dry-run" \in words]

\* idea-app update argv: the command of cli.py, run_update(dry_run=dry_run)
\* with force left to its default
CliUpdate(argv) ==
  /\ pc = "idle"
  /\ runs < MaxRuns
  /\ LET parsed == ParseUpdate(argv)
     IN IF parsed.exit # None
          THEN /\ EndsEarly("exited", parsed.exit, parsed.err, parsed.out)
               /\ probe' = << [argv |-> argv, called |-> <<>>] >>
               /\ UNCHANGED <<fs, dirs, manifest, toolVersion, templates, envOps,
                              runs, edited, lastRun, expected, pyproject>>
          ELSE /\ run_update(parsed.dry_run, FALSE)
               /\ probe' = << [argv |-> argv,
                               called |-> << [dry_run |-> parsed.dry_run,
                                              force |-> FALSE] >>] >>

NextCli ==
  \/ \E argv \in Argvs : CliUpdate(argv)
  \/ ApplyStep
  \/ Report
  \/ UpdateManifest
  \/ Return
  \/ \E p \in Tracked(manifest), content \in UserContents : UserEdit(p, content)

SpecCli == Init /\ [][NextCli]_vars

----------------------------------------------------------------------------
(* run_update on a project that already holds a sidecar from an earlier      *)
(* release of the tool.                                                      *)

\* Content of a sidecar written from a template of an earlier release
StaleSidecar == <<"template of an earlier release">>

SidecarInit ==
  /\ toolVersion = 1
  /\ templates = [src \in AllSrcs |-> 1]
  /\ \E left \in {S \in SUBSET TrackedFull : Cardinality(S) <= 1} :
       fs = [p \in {Sidecar(q) : q \in left} |-> StaleSidecar]
            @@ FreshFiles("streamlit", templates)
  /\ dirs = {PathParent(p) : p \in TrackedFull}
  /\ manifest = _update_manifest(fs, ProjectDir, Version, "streamlit", AppName,
                                 DEFAULT_PYTHON_VERSION)
  /\ pc = "idle"
  /\ run = NoRun
  /\ out = <<>>
  /\ envOps = 0
  /\ runs = 0
  /\ edited = <<>>
  /\ lastRun = <<>>
  /\ expected = <<>>
  /\ probe = <<>>
  /\ pyproject = <<OtherSections>>
  /\ stderr = <<>>
  /\ status = None

NextSidecar ==
  \/ \E dry_run \in BOOLEAN, force \in BOOLEAN : StartRun(dry_run, force)
  \/ ApplyStep
  \/ Report
  \/ UpdateManifest
  \/ Return
  \/ Crash
  \/ \E p \in Tracked(manifest), content \in UserContents : UserEdit(p, content)
  \/ \E p \in Tracked(manifest) : UserDelete(p)

SpecSidecar == SidecarInit /\ [][NextSidecar]_vars

----------------------------------------------------------------------------
(* migrate.py: run_migrate on a project made from the old template.          *)

\* The template/ directory of an old project and app_src/pyproject.toml
TemplateDir == Join(ProjectDir, "template")
AppPyproject == Join(ProjectDir, "app_src/pyproject.toml")
DockerfilePath == Join(ProjectDir, "app_src/Dockerfile")

\* re.search of marker followed by digits, a dot and digits
RECURSIVE VersionAfter(_, _, _)
VersionAfter(content, marker, i) ==
  IF i + 3 > Len(content) THEN None
  ELSE IF content[i] = marker /\ content[i + 2] = "."
    THEN SubSeq(content, i + 1, i + 3)
    ELSE VersionAfter(content, marker, i + 1)

\* _detect_python_version: the FROM line of the Dockerfile, else
\* requires-python of app_src/pyproject.toml, else 3.13
_detect_python_version(fsys) ==
  LET from_docker == IF exists(fsys, DockerfilePath)
                       THEN VersionAfter(fsys[DockerfilePath], "FROM python:", 1)
                       ELSE None
      from_app == IF exists(fsys, AppPyproject)
                    THEN VersionAfter(fsys[AppPyproject], "requires-python >=", 1)
                    ELSE None
  IN IF from_docker # None THEN from_docker
     ELSE IF from_app # None THEN from_app
     ELSE DEFAULT_PYTHON_VERSION

\* _read_webapp_config: framework and app_name of [tool.webapp], "" when not there
_read_webapp_config(config) ==
  LET webapp == IF "webapp" \in DOMAIN ToolOf(config) THEN ToolOf(config)["webapp"]
                ELSE <<>>
  IN [framework |-> IF "framework" \in DOMAIN webapp THEN webapp["framework"] ELSE "",
      app_name |-> IF "app_name" \in DOMAIN webapp THEN webapp["app_name"] ELSE <<>>]

\* _remove_old_config: [build-system], [project.scripts] and
\* [tool.uv.build-backend] go, package = false is set in [tool.uv]
_remove_old_config(config) ==
  LET no_build == Without(config, "build-system")
      no_scripts == IF "project" \in DOMAIN no_build
                      THEN With(no_build, "project",
                                Without(no_build["project"], "scripts"))
                      ELSE no_build
  IN IF "uv" \in DOMAIN ToolOf(no_scripts)
       THEN With(no_scripts, "tool",
                 With(no_scripts["tool"], "uv",
                      With(Without(no_scripts["tool"]["uv"], "build-backend"),
                           "package", <<"false">>)))
       ELSE no_scripts

\* The pre-flight check of run_migrate that is never true
AlreadyMigrated_Never(pp, man) == FALSE

\* The pre-flight check of run_migrate: the project has a manifest
AlreadyMigrated(pp, man) == DOMAIN read_manifest(pp, man) # {}

\* The project after the migration proper (build_manifest, write_manifest,
\* _remove_old_config, template/ removed) and the updates the user accepts:
\* run_update(dry_run=True) changes nothing, run_update(dry_run=False) runs
\* on the manifest just written
Migrated(fsys, ds, config, update, apply) ==
  LET webapp == _read_webapp_config(config)
      new_manifest == _update_manifest(fsys, ProjectDir, Version, webapp.framework,
                                       webapp.app_name, _detect_python_version(fsys))
      cleaned == _remove_old_config(write_manifest(config, new_manifest))
      no_template == ds \ {TemplateDir}
  IN IF update /\ apply
       THEN LET end == RunToEnd(fsys, no_template, ManifestOf(cleaned), Version,
                                templates, FALSE, FALSE)
            IN [fs |-> end.fs, dirs |-> end.dirs,
                config |-> write_manifest(cleaned, end.manifest)]
       ELSE [fs |-> fsys, dirs |-> no_template, config |-> cleaned]

\* The answers to the prompts that run_migrate gets to
Prompts(continue, update, apply) ==
  << <<"Continue?", continue>> >>
  \o (IF continue
        THEN << <<"Would you like to update to the latest template files?", update>> >>
        ELSE <<>>)
  \o (IF continue /\ update THEN << <<"Apply these changes?", apply>> >> ELSE <<>>)

\* run_migrate, with the answers the user gives to click.confirm
Migrate(continue, update, apply) ==
  /\ pc = "idle"
  /\ runs < MaxRuns
  /\ runs' = runs + 1
  /\ IF pyproject = None
       THEN /\ EndsEarly("exited", <<"1">>,
                         <<"Error: No pyproject.toml found. Are you in a project root?">>,
                         <<>>)
            /\ probe' = << [probe[1] EXCEPT !.prompts = <<>>] >>
            /\ UNCHANGED <<fs, dirs, manifest, pyproject>>
     ELSE IF AlreadyMigrated(pyproject, manifest)
       THEN /\ EndsEarly("exited", <<"1">>,
                         <<"This project has already been migrated.",
                           "  Use 'idea-app update' instead.">>,
                         <<>>)
            /\ probe' = << [probe[1] EXCEPT !.prompts = <<>>] >>
            /\ UNCHANGED <<fs, dirs, manifest, pyproject>>
     ELSE IF \/ _read_webapp_config(pyproject[1]).framework = ""
             \/ _read_webapp_config(pyproject[1]).app_name = <<>>
       THEN /\ EndsEarly("exited", <<"1">>,
                         <<"Error: No [tool.webapp] section with framework and app_name found.",
                           "  This doesn't look like a project created from the template.">>,
                         <<>>)
            /\ probe' = << [probe[1] EXCEPT !.prompts = <<>>] >>
            /\ UNCHANGED <<fs, dirs, manifest, pyproject>>
     ELSE IF ~continue
       THEN /\ EndsEarly("returned", None, <<>>, <<"Aborted.">>)
            /\ probe' = << [probe[1] EXCEPT
                              !.prompts = Prompts(continue, update, apply)] >>
            /\ UNCHANGED <<fs, dirs, manifest, pyproject>>
     ELSE LET end == Migrated(fs, dirs, Document(pyproject[1], manifest), update, apply)
          IN /\ fs' = end.fs
             /\ dirs' = end.dirs
             /\ manifest' = ManifestOf(end.config)
             /\ pyproject' = <<RestOf(end.config)>>
             /\ EndsEarly("returned", None, <<>>,
                          <<"Migration complete.">>
                          \o (IF update /\ apply THEN <<"Next steps:">>
                              ELSE <<"Run 'idea-app update' when ready.">>))
             /\ probe' = << [probe[1] EXCEPT
                               !.prompts = Prompts(continue, update, apply),
                               !.created = @ + 1] >>
  /\ UNCHANGED <<toolVersion, templates, envOps, edited, lastRun, expected>>

\* The command has ended; the next one may be given
MigrateReturn ==
  /\ pc \in {"returned", "exited"}
  /\ pc' = "idle"
  /\ out' = <<>>
  /\ stderr' = <<>>
  /\ status' = None
  /\ UNCHANGED <<fs, dirs, manifest, toolVersion, templates, run, envOps, runs,
                 edited, lastRun, expected, probe, pyproject>>

\* The files of the Dockerfile and of app_src/pyproject.toml in old projects
OldDockerfiles ==
  {<<>>, << <<"FROM python:", "3", ".", "12", "-slim AS base">> >>,
   << <<"FROM ubuntu:latest">> >>}
OldAppPyprojects == {<<>>, << <<"requires-python >=", "3", ".", "11">> >>}

\* pyproject.toml of the projects run_migrate is run in: the old template's,
\* one without [tool.webapp], one already migrated, and none
MigratePyprojects ==
  {[pp |-> <<OLD_PYPROJECT>>, man |-> <<>>],
   [pp |-> <<With(OLD_PYPROJECT, "tool", Without(OLD_PYPROJECT["tool"], "webapp"))>>,
    man |-> <<>>],
   [pp |-> <<OLD_PYPROJECT>>, man |-> OldManifest],
   [pp |-> None, man |-> <<>>]}

MigrateInit ==
  /\ toolVersion = 1
  /\ templates = [src \in AllSrcs |-> 1]
  /\ \E docker \in OldDockerfiles, app \in OldAppPyprojects :
       fs = [p \in (IF docker = <<>> THEN {} ELSE {DockerfilePath})
                   \cup (IF app = <<>> THEN {} ELSE {AppPyproject})
                   \cup (TrackedFull \ {DockerfilePath}) |->
               IF p = DockerfilePath THEN docker[1]
               ELSE IF p = AppPyproject THEN app[1]
               ELSE <<"old template", RelOf(p)>>]
  /\ \E template \in SUBSET {TemplateDir} : dirs = ProjectSubdirs \cup template
  /\ \E doc \in MigratePyprojects :
       /\ pyproject = doc.pp
       /\ manifest = doc.man
  /\ probe = << [prompts |-> <<>>, created |-> 0] >>
  /\ pc = "idle"
  /\ run = NoRun
  /\ out = <<>>
  /\ envOps = MaxEnvOps
  /\ runs = 0
  /\ edited = <<>>
  /\ lastRun = <<>>
  /\ expected = <<>>
  /\ stderr = <<>>
  /\ status = None

NextMigrate ==
  \/ \E continue \in BOOLEAN, update \in BOOLEAN, apply \in BOOLEAN :
       Migrate(continue, update, apply)
  \/ MigrateReturn

SpecMigrate == MigrateInit /\ [][NextMigrate]_vars

----------------------------------------------------------------------------
(* smoke_test.py: run_smoke_test, one docker compose command at a time.      *)
(* probe holds the locals of the call and the compose commands run so far.   *)

COMPOSE_FILE == Join(ProjectDir, ".devcontainer/docker-compose.yml")
MAX_WAIT_SECONDS == 120
POLL_INTERVAL_SECONDS == 2

HEALTH_PATHS ==
  ("streamlit" :> "/_stcore/health") @@ ("dash" :> "/health") @@ ("fastapi" :> "/health")

_get_health_path(framework) ==
  IF framework \in DOMAIN HEALTH_PATHS THEN HEALTH_PATHS[framework] ELSE "/health"

\* _get_framework: [tool.webapp] framework of pyproject.toml, "" when not there
_get_framework(config) ==
  LET webapp == IF "webapp" \in DOMAIN ToolOf(config) THEN ToolOf(config)["webapp"]
                ELSE <<>>
  IN IF "framework" \in DOMAIN webapp THEN webapp["framework"] ELSE ""

\* The locals of run_smoke_test
Smoke == probe[1]

\* _compose(command, ...): the command is run
Ran(command) == [Smoke EXCEPT !.calls = Append(@, command)]

\* How many times a compose command was run
Count(calls, command) == Cardinality({i \in 1..Len(calls) : calls[i] = command})

\* The finally clause cleaning up whether or not the container was started
NeedsCleanup_Always(container_started) == TRUE

\* The test of the finally clause
NeedsCleanup(container_started) == container_started

\* run_smoke_test up to the build: configuration and compose file
SmokeStart(build_only, wait) ==
  /\ pc = "idle"
  /\ probe = <<>>
  /\ LET locals == [build_only |-> build_only, wait |-> wait,
                    container_started |-> FALSE, calls |-> <<>>,
                    seconds_waited |-> 0, pending |-> None,
                    health_path |-> ""]
     IN IF pyproject = None
          THEN /\ EndsEarly("exited", <<"1">>,
                            <<"Error: No pyproject.toml found. Are you in a project root?">>,
                            <<"Loading configuration...">>)
               /\ probe' = <<locals>>
        ELSE IF _get_framework(pyproject[1]) = ""
          THEN /\ EndsEarly("exited", <<"1">>,
                            <<"Error: No framework configured in [tool.webapp].",
                              "  This doesn't look like a project created by idea-app.">>,
                            <<"Loading configuration...">>)
               /\ probe' = <<locals>>
        ELSE IF ~exists(fs, COMPOSE_FILE)
          THEN /\ EndsEarly("exited", <<"1">>,
                            <<"Error: .devcontainer/docker-compose.yml not found.",
                              "  Run 'idea-app update' to restore missing files.">>,
                            <<"Loading configuration...">>)
               /\ probe' = <<locals>>
        ELSE /\ EndsEarly("build", None, <<>>,
                          <<"Loading configuration...", "Building production image...">>)
             /\ probe' = << [locals EXCEPT !.health_path =
                               _get_health_path(_get_framework(pyproject[1]))] >>
  /\ UNCHANGED <<fs, dirs, manifest, toolVersion, templates, envOps, runs,
                 edited, lastRun, expected, pyproject>>

\* _compose("build", stream=True) and the test of build_only
SmokeBuild(outcome) ==
  /\ pc = "build"
  /\ probe' = <<Ran("build")>>
  /\ IF outcome = "CalledProcessError"
       THEN EndsEarly("exited", <<"1">>, <<"Error: Docker build failed.">>, out)
     ELSE IF outcome = "FileNotFoundError"
       THEN EndsEarly("exited", <<"1">>,
                      <<"Error: docker not found. Is Docker installed and running?">>,
                      out)
     ELSE EndsEarly(IF Smoke.build_only THEN "returned" ELSE "up", None, <<>>,
                    Append(out, "Build complete."))
  /\ UNCHANGED <<fs, dirs, manifest, toolVersion, templates, envOps, runs,
                 edited, lastRun, expected, pyproject>>

\* _compose("up", "-d"), then container_started = True
SmokeUp(outcome) ==
  /\ pc = "up"
  /\ IF outcome = "ok"
       THEN /\ probe' = << [Ran("up") EXCEPT !.container_started = TRUE] >>
            /\ pc' = "port"
       ELSE /\ probe' = << [Ran("up") EXCEPT !.pending = <<outcome>>] >>
            /\ pc' = "finally"
  /\ out' = Append(out, "Starting container...")
  /\ UNCHANGED <<fs, dirs, manifest, toolVersion, templates, run, envOps, runs,
                 edited, lastRun, expected, pyproject, stderr, status>>

\* _get_host_port: _compose("port", ...)
SmokePort(outcome) ==
  /\ pc = "port"
  /\ IF outcome = "ok"
       THEN /\ probe' = <<Ran("port")>>
            /\ pc' = "poll"
            /\ out' = Append(out, "Waiting for health check (up to 120s)...")
       ELSE /\ probe' = << [Ran("port") EXCEPT !.pending = <<outcome>>] >>
            /\ pc' = "finally"
            /\ out' = out
  /\ UNCHANGED <<fs, dirs, manifest, toolVersion, templates, run, envOps, runs,
                 edited, lastRun, expected, pyproject, stderr, status>>

\* One turn of the loop of _poll_health, and what run_smoke_test does with
\* its result: logs and sys.exit(1) when it timed out
SmokePoll(healthy) ==
  /\ pc = "poll"
  /\ IF Smoke.seconds_waited >= MAX_WAIT_SECONDS
       THEN /\ probe' = << [Ran("logs") EXCEPT !.pending = <<"SystemExit", "1">>] >>
            /\ pc' = "finally"
            /\ stderr' = <<"Health check failed. The container did not respond in time.">>
            /\ out' = Append(out, "Container logs:")
     ELSE IF healthy
       THEN /\ probe' = probe
            /\ pc' = IF Smoke.wait THEN "wait" ELSE "finally"
            /\ stderr' = stderr
            /\ out' = Append(out, "Health check passed.")
     ELSE /\ probe' = << [Smoke EXCEPT !.seconds_waited = @ + POLL_INTERVAL_SECONDS] >>
          /\ pc' = "poll"
          /\ stderr' = stderr
          /\ out' = out
  /\ UNCHANGED <<fs, dirs, manifest, toolVersion, templates, run, envOps, runs,
                 edited, lastRun, expected, pyproject, status>>

\* input() of --wait: Enter, or the user interrupts
SmokeWait(outcome) ==
  /\ pc = "wait"
  /\ probe' = << [Smoke EXCEPT !.pending = IF outcome = "ok" THEN None ELSE <<outcome>>] >>
  /\ pc' = "finally"
  /\ out' = Append(out, "Press Enter to stop and clean up...")
  /\ UNCHANGED <<fs, dirs, manifest, toolVersion, templates, run, envOps, runs,
                 edited, lastRun, expected, pyproject, stderr, status>>

\* The finally clause: _cleanup when the container was started; then the
\* function returns, or the pending exit or exception goes on
SmokeFinally ==
  /\ pc = "finally"
  /\ IF NeedsCleanup(Smoke.container_started)
       THEN /\ probe' = <<Ran("down")>>
            /\ out' = Append(out, "Cleaning up...")
       ELSE /\ probe' = probe
            /\ out' = out
  /\ IF Smoke.pending = None
       THEN pc' = "returned" /\ status' = None
     ELSE IF Smoke.pending[1] = "SystemExit"
       THEN pc' = "exited" /\ status' = <<Smoke.pending[2]>>
     ELSE pc' = "raised" /\ status' = Smoke.pending
  /\ UNCHANGED <<fs, dirs, manifest, toolVersion, templates, run, envOps, runs,
                 edited, lastRun, expected, pyproject, stderr>>

\* Outcomes of a subprocess or of input()
Outcomes == {"ok", "CalledProcessError", "FileNotFoundError", "KeyboardInterrupt"}

SmokeInit ==
  /\ toolVersion = 1
  /\ templates = [src \in AllSrcs |-> 1]
  /\ \E present \in SUBSET {COMPOSE_FILE} :
       fs = [p \in present |-> <<"services:", "app:">>]
  /\ dirs = ProjectSubdirs
  /\ pyproject \in {None, <<ProjectSection>>, <<OLD_PYPROJECT>>}
  /\ manifest = <<>>
  /\ probe = <<>>
  /\ pc = "idle"
  /\ run = NoRun
  /\ out = <<>>
  /\ envOps = MaxEnvOps
  /\ runs = 0
  /\ edited = <<>>
  /\ lastRun = <<>>
  /\ expected = <<>>
  /\ stderr = <<>>
  /\ status = None

NextSmoke ==
  \/ \E build_only \in BOOLEAN, wait \in BOOLEAN : SmokeStart(build_only, wait)
  \/ \E outcome \in Outcomes \ {"KeyboardInterrupt"} : SmokeBuild(outcome)
  \/ \E outcome \in Outcomes : SmokeUp(outcome)
  \/ \E outcome \in Outcomes : SmokePort(outcome)
  \/ \E healthy \in BOOLEAN : SmokePoll(healthy)
  \/ \E outcome \in {"ok", "KeyboardInterrupt"} : SmokeWait(outcome)
  \/ SmokeFinally

SpecSmoke == SmokeInit /\ [][NextSmoke]_vars

----------------------------------------------------------------------------
(* One run_update on a project recorded by release 1 of the tool, run with   *)
(* release 2, in which every tracked file is as recorded, edited by the user *)
(* or deleted, and in which templates of the package may be missing.         *)

\* What has become of a tracked file since the manifest was written
FileStates == {"recorded", "edited", "deleted"}

\* The template sources missing from the package: none, one, or all
MissingTemplates ==
  {S \in SUBSET DOMAIN get_tracked_files("streamlit") :
     Cardinality(S) <= 1 \/ S = DOMAIN get_tracked_files("streamlit")}

ProjectsInit ==
  /\ toolVersion = 2
  /\ \E missing \in MissingTemplates :
       templates = [src \in AllSrcs |-> IF src \in missing THEN 0 ELSE 1]
  /\ \E state \in [TrackedOf["streamlit"] -> FileStates] :
       LET fresh == FreshFiles("streamlit", [src \in AllSrcs |-> 1])
       IN /\ fs = [p \in {q \in DOMAIN fresh : state[q] # "deleted"} |->
                     IF state[p] = "edited" THEN <<"user edit">> ELSE fresh[p]]
          /\ edited = [p \in {q \in DOMAIN fresh : state[q] = "edited"} |->
                         <<"user edit">>]
          /\ manifest = _update_manifest(fresh, ProjectDir, ToolRelease(1), "streamlit",
                                         AppName, DEFAULT_PYTHON_VERSION)
  /\ dirs = ProjectSubdirs
  /\ pyproject = <<OtherSections>>
  /\ pc = "idle"
  /\ run = NoRun
  /\ out = <<>>
  /\ stderr = <<>>
  /\ status = None
  /\ envOps = MaxEnvOps
  /\ runs = MaxRuns - 1
  /\ lastRun = <<>>
  /\ expected = <<>>
  /\ probe = <<>>

SpecProjects == ProjectsInit /\ [][NextRun]_vars

----------------------------------------------------------------------------
(* run_update in projects whose manifest section was recorded by an older,
   the same or a newer release than the running tool, with python_version
   3.12, 3.13 or not recorded, with and without a key of the user's own in
   the section; one tracked file may be edited or deleted. *)

\* The python_version values of the manifests: two versions and None for a
\* manifest without the key
RecordedPythons == {<<"3", ".", "12">>, DEFAULT_PYTHON_VERSION, None}

\* A key that the tool does not write, put in the section by hand
OwnKey == "notes"

RewriteInit ==
  /\ toolVersion = 2
  /\ templates = [src \in AllSrcs |-> 1]
  /\ \E recorded \in {toolVersion - 1, toolVersion, toolVersion + 1},
        python \in RecordedPythons, own \in BOOLEAN :
       LET fresh == FreshFiles("streamlit", templates)
           built == build_manifest("streamlit", AppName, ToolRelease(recorded), fresh,
                                   ProjectDir)
           section == IF python = None THEN built
                      ELSE With(built, "python_version", python)
       IN /\ manifest = IF own THEN With(section, OwnKey, <<"kept by hand">>)
                        ELSE section
          /\ \/ fs = fresh
             \/ \E p \in TrackedOf["streamlit"], pe \in {"edited", "deleted"} :
                  fs = PathEdit(fresh, p, pe)
  /\ pyproject = <<OtherSections>>
  /\ dirs = ProjectSubdirs
  /\ pc = "idle"
  /\ run = NoRun
  /\ out = <<>>
  /\ stderr = <<>>
  /\ status = None
  /\ envOps = MaxEnvOps
  /\ runs = MaxRuns - 1
  /\ edited = <<>>
  /\ lastRun = <<>>
  /\ expected = <<>>
  /\ probe = <<>>

SpecRewrite == RewriteInit /\ [][NextRun]_vars

----------------------------------------------------------------------------
(* Notions the properties use. *)

\* The template source of a tracked absolute path
SrcOf(man, p) ==
  CHOOSE src \in DOMAIN get_tracked_files(man.framework) :
    Join(ProjectDir, get_tracked_files(man.framework)[src]) = p

\* The current rendered template content for a tracked path
Rendered(man, p) ==
  _render_template(templates, SrcOf(man, p),
                   TemplateVars(man.app_name, PythonVersionOf(man)))

\* The content of a path, or None when there is no such file
ContentOf(fsys, p) == IF exists(fsys, p) THEN fsys[p] ELSE None

\* A run is in progress, it is not a dry run and it has not failed
Applying == run # NoRun /\ ~Cur.dry_run /\ pc # "raised"

\* The items of the plan that _apply_updates has gone through
Applied == IF run = NoRun THEN {} ELSE {k \in 1..Len(Cur.plan) : k < Cur.i}

\* The actions of a plan, path by path
ActionsOf(plan) == [k \in 1..Len(plan) |-> <<plan[k].dest_path, plan[k].action>>]

----------------------------------------------------------------------------
(* Properties. *)

\* C1: over runs with force = False, a tracked file the user edited after
\* the tool last wrote it keeps the user's content after every run.
C1_UserEditNeverOverwritten ==
  \A p \in DOMAIN edited : exists(fs, p) /\ fs[p] = edited[p]

\* C2: the classifier returns CREATE for an absent file whatever the other
\* inputs; UPDATE for a present file that is not recorded or whose hash
\* equals the recorded one, whatever force is; SKIP for a present, recorded
\* file with another hash when force is false; FORCE for it when force is true.
C2_ClassifierTable ==
  \A k \in DOMAIN probe :
    LET x == probe[k]
        present == x.file # <<>>
        recorded == x.entry # <<>>
        equal == present /\ recorded /\ x.entry[1] = <<"sha256", x.file[1]>>
    IN x.result # "pending" =>
         /\ ~present => x.result = CREATE
         /\ present /\ (~recorded \/ equal) => x.result = UPDATE
         /\ present /\ recorded /\ ~equal /\ ~x.force => x.result = SKIP
         /\ present /\ recorded /\ ~equal /\ x.force => x.result = FORCE
         /\ x.result \in {CREATE, UPDATE, SKIP, FORCE}

C2_Witness ==
  /\ probe # <<>>
  /\ probe[1].result = FORCE
  /\ probe[1].file # <<>>
  /\ probe[1].entry # <<>>

\* C3: for every SKIP item that Apply has gone through, the destination
\* file has the content it had before Apply, and the sidecar at the
\* destination path with ".new" appended holds the rendered template content.
C3_SkipKeepsOriginalWritesSidecar ==
  Applying =>
    \A k \in Applied :
      LET item == Cur.plan[k]
      IN item.action = SKIP =>
           /\ ContentOf(fs, item.dest_full) = ContentOf(Cur.fs0, item.dest_full)
           /\ exists(fs, item.dest_full \o ".new")
           /\ fs[item.dest_full \o ".new"] = Rendered(Cur.manifest0, item.dest_full)

C3_Witness ==
  /\ Applying
  /\ pc = "done"
  /\ \E k \in Applied :
       /\ Cur.plan[k].action = SKIP
       /\ ~exists(Cur.fs0, Sidecar(Cur.plan[k].dest_full))
       /\ exists(fs, Sidecar(Cur.plan[k].dest_full))

\* C4: during and after a dry run no file, no sidecar, no directory and no
\* part of the manifest differs from its state before the run.
C4_DryRunChangesNothing ==
  (run # NoRun /\ Cur.dry_run) =>
    /\ fs = Cur.fs0
    /\ dirs = Cur.dirs0
    /\ manifest = Cur.manifest0
    /\ pc \in {"report", "done"}

C4_Witness ==
  /\ run # NoRun
  /\ Cur.dry_run
  /\ pc = "done"
  /\ \E k \in 1..Len(Cur.plan) :
       /\ Cur.plan[k].action = SKIP
       /\ ~exists(fs, Sidecar(Cur.plan[k].dest_full))

\* C5: after a run without dry_run and without force, the manifest records
\* for every path whose plan item was SKIP the hash it recorded before the run.
C5_SkipKeepsRecordedHash ==
  (run # NoRun /\ pc = "done" /\ ~Cur.dry_run /\ ~Cur.force) =>
    \A k \in 1..Len(Cur.plan) :
      Cur.plan[k].action = SKIP =>
        Get(manifest.files, Cur.plan[k].dest_path)
          = Get(Cur.manifest0.files, Cur.plan[k].dest_path)

\* C6: the run that follows an interrupted run, with the same templates and
\* flags, ends in the state the interrupted run would have ended in: the
\* same files, the same sidecars, the same manifest.
C6_RerunConverges ==
  (run # NoRun /\ pc = "done" /\ expected # <<>>) =>
    /\ fs = expected[1].end.fs
    /\ manifest = expected[1].end.manifest

\* C7: from a project with no locally modified tracked file, two successive
\* runs without dry_run, with nothing done in between, have the same action
\* for every path and no SKIP item.
C7_SuccessivePlansIdentical ==
  (run # NoRun /\ ~Cur.dry_run /\ lastRun # <<>> /\ ~lastRun[1].dry_run
     /\ lastRun[1].clean) =>
    /\ ActionsOf(Cur.plan) = ActionsOf(lastRun[1].plan)
    /\ \A k \in 1..Len(Cur.plan) : Cur.plan[k].action # SKIP
    /\ \A k \in 1..Len(lastRun[1].plan) : lastRun[1].plan[k].action # SKIP

\* C7 as amended: the two plans have no SKIP item, the same paths and the
\* same rendered contents, and the same action for every path except that a
\* path missing before the first run is CREATE in the first plan and UPDATE
\* in the second.
C7_SuccessivePlansAmended ==
  (run # NoRun /\ ~Cur.dry_run /\ lastRun # <<>> /\ ~lastRun[1].dry_run
     /\ lastRun[1].clean) =>
    LET first == lastRun[1].plan
        second == Cur.plan
    IN /\ Len(first) = Len(second)
       /\ \A k \in 1..Len(second) :
            /\ second[k].dest_path = first[k].dest_path
            /\ second[k].new_content = first[k].new_content
            /\ first[k].action \in {CREATE, UPDATE}
            /\ second[k].action = UPDATE

C7_Witness ==
  /\ run # NoRun
  /\ ~Cur.dry_run
  /\ lastRun # <<>>
  /\ ~lastRun[1].dry_run
  /\ lastRun[1].clean
  /\ \E k \in 1..Len(lastRun[1].plan) :
       /\ lastRun[1].plan[k].action = CREATE
       /\ Cur.plan[k].action = UPDATE
  /\ \E k \in 1..Len(lastRun[1].plan) :
       /\ lastRun[1].plan[k].action = UPDATE
       /\ Cur.plan[k].action = UPDATE

\* C8: after a run without dry_run whose plan has a CREATE, UPDATE or FORCE
\* item, the files map of the manifest has an entry for exactly the tracked
\* paths that exist on disk, each the hash of the file's current content.
C8_ManifestMatchesDisk ==
  (run # NoRun /\ pc = "done" /\ ~Cur.dry_run /\ HasWrites(Cur.plan)) =>
    /\ DOMAIN manifest.files = {RelOf(p) : p \in {q \in Tracked(manifest) : exists(fs, q)}}
    /\ \A p \in Tracked(manifest) :
         exists(fs, p) => manifest.files[RelOf(p)] = <<"sha256", fs[p]>>

C8_Witness ==
  /\ run # NoRun
  /\ pc = "done"
  /\ ~Cur.dry_run
  /\ \E k \in 1..Len(Cur.plan) :
       /\ Cur.plan[k].action = UPDATE
       /\ manifest.files[Cur.plan[k].dest_path] = <<"sha256", Cur.plan[k].new_content>>
       /\ manifest.files[Cur.plan[k].dest_path]
            # Cur.manifest0.files[Cur.plan[k].dest_path]

\* C9: for every CREATE, UPDATE or FORCE item that Apply has gone through,
\* the destination file exists, in a directory that exists, with the
\* rendered content of the item, whatever it held before, and the sidecar
\* of the path is as it was before the run; Apply never fails.
C9_WriteItemsHoldRendered ==
  /\ pc # "raised"
  /\ Applying =>
       \A k \in Applied :
         LET item == Cur.plan[k]
         IN item.action \in {CREATE, UPDATE, FORCE} =>
              /\ exists(fs, item.dest_full)
              /\ PathParent(item.dest_full) \in dirs
              /\ fs[item.dest_full] = item.new_content
              /\ item.new_content = Rendered(Cur.manifest0, item.dest_full)
              /\ ContentOf(fs, item.dest_full \o ".new")
                   = ContentOf(Cur.fs0, item.dest_full \o ".new")

C9_Witness ==
  /\ Applying
  /\ pc = "done"
  /\ \E k \in Applied :
       /\ Cur.plan[k].action = CREATE
       /\ PathParent(Cur.plan[k].dest_full) \notin Cur.dirs0
       /\ PathParent(Cur.plan[k].dest_full) \in dirs

\* C10: with force no plan item is SKIP and every locally modified tracked
\* file is FORCE; a force run that is not a dry run leaves each of them with
\* the rendered content and no sidecar other than before the run; without
\* force no plan item is FORCE.
C10_ForceOverwritesNoSidecar ==
  run # NoRun =>
    /\ Cur.force =>
         \A k \in 1..Len(Cur.plan) :
           /\ Cur.plan[k].action # SKIP
           /\ LocallyModified(Cur.fs0, Cur.manifest0, Cur.plan[k].dest_full)
                => Cur.plan[k].action = FORCE
    /\ ~Cur.force => \A k \in 1..Len(Cur.plan) : Cur.plan[k].action # FORCE
    /\ (Cur.force /\ ~Cur.dry_run /\ pc = "done") =>
         /\ \A p \in Tracked(Cur.manifest0) :
              LocallyModified(Cur.fs0, Cur.manifest0, p) =>
                exists(fs, p) /\ fs[p] = Rendered(Cur.manifest0, p)
         /\ \A p \in TrackedFull :
              ContentOf(fs, Sidecar(p)) = ContentOf(Cur.fs0, Sidecar(p))

C10_Witness ==
  /\ run # NoRun
  /\ Cur.force
  /\ ~Cur.dry_run
  /\ pc = "done"
  /\ \E k \in 1..Len(Cur.plan) :
       /\ Cur.plan[k].action = FORCE
       /\ Cur.fs0[Cur.plan[k].dest_full] \in UserContents
       /\ fs[Cur.plan[k].dest_full] = Cur.plan[k].new_content

\* C11: when pyproject.toml is missing, or has no manifest section, or the
\* manifest lacks framework or app_name, run_update echoes an error with
\* err=True and exits with code 1 without making a plan, and leaves every
\* file, sidecar, directory and the manifest as they were.
C11_PreconditionFailureExits ==
  [][(/\ pc = "idle"
      /\ pc' # "idle"
      /\ \/ pyproject = None
         \/ DOMAIN manifest = {}
         \/ "framework" \notin DOMAIN manifest
         \/ "app_name" \notin DOMAIN manifest)
       => /\ pc' = "exited"
          /\ status' = <<"1">>
          /\ stderr' # <<>>
          /\ out' = <<>>
          /\ run' = NoRun
          /\ fs' = fs
          /\ dirs' = dirs
          /\ manifest' = manifest
          /\ pyproject' = pyproject]_vars

C11_Witness ==
  /\ pc = "exited"
  /\ status = <<"1">>
  /\ pyproject # None
  /\ DOMAIN manifest # {}
  /\ "framework" \notin DOMAIN manifest
  /\ stderr = << <<"Error: Manifest is missing framework or app_name.">> >>

\* C12: whatever the state of the project, run_update returns or ends by
\* the one path that echoes an error and exits with code 1: no exception
\* leaves run_update.
C12_NoExceptionEscapes ==
  /\ pc \in {"idle", "apply", "report", "manifest", "done", "exited"}
  /\ status \in {None, <<"1">>}
  /\ pc = "exited" => status = <<"1">> /\ stderr # <<>>

\* C14: whatever the tool_version of the manifest is (missing, with a
\* component that is no number, malformed, newer than the running tool, not
\* a string), no exception leaves _check_version: a run_update that has
\* passed its preconditions makes its plan.
C14_VersionGuardNeverBlocks ==
  /\ \A e \in Exceptions : status # <<e, "_check_version">>
  /\ (pc # "idle" /\ run = NoRun) =>
       \/ pc = "exited" /\ Preflight(pyproject, manifest).code # None
       \/ pc = "raised" /\ Len(status) = 2 /\ status[2] = "_plan_updates"

\* The numerals and the integers they stand for
Numerals == {"0", "1", "2", "10"}
NumberOf(c) == CASE c = "0" -> 0 [] c = "1" -> 1 [] c = "2" -> 2 [] c = "10" -> 10

\* A version all of whose components are numerals
Numeric(version) == \A i \in 1..Len(version) : version[i] \in Numerals

\* a is strictly older than b, as tuples of integers: at the first place
\* where they differ a has the smaller number, or a ends there
Older(a, b) ==
  \E i \in 1..Len(b) :
    /\ \A j \in 1..(i - 1) : j <= Len(a) /\ NumberOf(a[j]) = NumberOf(b[j])
    /\ i > Len(a) \/ (i <= Len(a) /\ NumberOf(a[i]) < NumberOf(b[i]))

\* C13: for a running version and a recorded version that are both
\* dot-separated integers, _check_version echoes the advisory exactly when
\* the running version is strictly older, and echoes it with err=True only:
\* nothing goes to standard output.
C13_AdvisoryOnErrOnly ==
  \A k \in DOMAIN probe :
    LET x == probe[k]
        recorded == IF x.recorded = <<>> THEN <<"0", "0", "0">> ELSE x.recorded[1]
    IN (x.called /\ IsStr(recorded) /\ Numeric(x.running) /\ Numeric(recorded)) =>
         /\ x.raised = None
         /\ x.out = <<>>
         /\ Older(x.running, recorded) <=> x.err # <<>>

----------------------------------------------------------------------------
\* C15: whatever tracked files are on disk, the record that read_manifest
\* returns after build_manifest and write_manifest equals the built record
\* in every field: framework, app_name, tool_version and the files map.
C15_BuildWriteReadRoundTrip ==
  (probe # <<>> /\ probe[1].step = "read") =>
    /\ DOMAIN probe[1].result = DOMAIN probe[1].built
    /\ \A field \in {"framework", "app_name", "tool_version", "files"} :
         /\ field \in DOMAIN probe[1].result
         /\ probe[1].result[field] = probe[1].built[field]

\* C15 witness: a round trip over a project with some but not all tracked
\* files present and an older manifest section in place
C15_Witness ==
  /\ probe # <<>>
  /\ probe[1].step = "read"
  /\ DOMAIN fs # {}
  /\ DOMAIN fs # TrackedFull
  /\ ManifestOf(probe[1].before) = OldManifest
  /\ DOMAIN probe[1].result.files = {RelOf(p) : p \in DOMAIN fs}

\* C16: write_manifest leaves every other section and key of pyproject.toml
\* as it was, and the manifest section after it is the new record alone: no
\* key and no file entry of the previous section is left.
C16_WriteChangesOnlyManifestSection ==
  (probe # <<>> /\ probe[1].step # "start") =>
    LET before == probe[1].before
        after == Document(pyproject[1], manifest)
    IN /\ DOMAIN after = DOMAIN before \cup {"tool"}
       /\ \A section \in DOMAIN before \ {"tool"} : after[section] = before[section]
       /\ Without(ToolOf(after), MANIFEST_KEY) = Without(ToolOf(before), MANIFEST_KEY)
       /\ ManifestOf(after) = probe[1].built
       /\ DOMAIN FilesOf(ManifestOf(after)) = {RelOf(p) : p \in DOMAIN fs}

\* C16 witness: a write over a document with another tool section and a
\* previous manifest section one of whose file entries is not in the new one
C16_Witness ==
  /\ probe # <<>>
  /\ probe[1].step = "written"
  /\ {"uv", "webapp"} \subseteq DOMAIN ToolOf(probe[1].before)
  /\ {"uv", "webapp"} \subseteq DOMAIN ToolOf(pyproject[1])
  /\ "build-system" \in DOMAIN pyproject[1]
  /\ ManifestOf(probe[1].before) = OldManifest
  /\ \E p \in DOMAIN OldManifest.files : p \notin DOMAIN manifest.files
  /\ "python_version" \notin DOMAIN manifest

----------------------------------------------------------------------------
\* C17: the update command passes its flags on: `update` calls
\* run_update(dry_run=False, force=False), `update --dry-run` calls it with
\* dry_run=True and `update --force` calls it with force=True, so that no
\* file of the plan is SKIP.
C17_CliPassesFlags ==
  probe # <<>> =>
    LET argv == probe[1].argv
        called == probe[1].called
    IN /\ argv = <<>> => called = << [dry_run |-> FALSE, force |-> FALSE] >>
       /\ argv = <<"--dry-run">> => called = << [dry_run |-> TRUE, force |-> FALSE] >>
       /\ argv = <<"--force">> =>
            /\ called = << [dry_run |-> FALSE, force |-> TRUE] >>
            /\ run # NoRun => \A i \in 1..Len(Cur.plan) : Cur.plan[i].action # SKIP

----------------------------------------------------------------------------
\* C18: no step of a run (dry, normal or force) removes a sidecar p.new that
\* exists, and a step changes the content of one only when it applies the
\* item of p, classified SKIP, in a run that is not a dry run.
C18_SidecarNeverDeleted ==
  [][(pc # "idle" \/ pc' # "idle") =>
       \A p \in TrackedFull :
         exists(fs, Sidecar(p)) =>
           /\ exists(fs', Sidecar(p))
           /\ fs'[Sidecar(p)] # fs[Sidecar(p)] =>
                /\ pc = "apply"
                /\ ~Cur.dry_run
                /\ Cur.plan[Cur.i].dest_full = p
                /\ Cur.plan[Cur.i].action = SKIP]_vars

\* C18 witness: a force run has overwritten the locally modified p, and the
\* sidecar of p, rewritten by an earlier run that skipped p, is still there
C18_Witness ==
  /\ run # NoRun
  /\ pc = "done"
  /\ Cur.force
  /\ ~Cur.dry_run
  /\ \E k \in 1..Len(Cur.plan) :
       LET p == Cur.plan[k].dest_full
       IN /\ Cur.plan[k].action = FORCE
          /\ exists(Cur.fs0, Sidecar(p))
          /\ exists(fs, Sidecar(p))
          /\ fs[Sidecar(p)] = Cur.fs0[Sidecar(p)]
          /\ fs[Sidecar(p)] # StaleSidecar
          /\ fs[p] = Cur.plan[k].new_content

----------------------------------------------------------------------------
\* C19: run_migrate leaves pyproject.toml, the template/ directory, the
\* manifest and the files as they are when the project already has a
\* manifest record, and then exits with a non-zero code, and when the user
\* answers no to "Continue?"; so migration creates a manifest record at most
\* once in a project.
C19_MigrateOnceOrNothing ==
  [][(pc = "idle" /\ pc' # "idle") =>
       /\ (pyproject # None /\ DOMAIN manifest # {}) =>
            /\ pc' = "exited"
            /\ status' \notin {None, <<"0">>}
            /\ stderr' # <<>>
            /\ pyproject' = pyproject /\ manifest' = manifest
            /\ dirs' = dirs /\ fs' = fs
            /\ probe'[1].created = probe[1].created
       /\ (probe'[1].prompts # <<>> /\ ~probe'[1].prompts[1][2]) =>
            /\ pc' = "returned"
            /\ pyproject' = pyproject /\ manifest' = manifest
            /\ dirs' = dirs /\ fs' = fs
            /\ probe'[1].created = probe[1].created
       /\ probe'[1].created <= 1]_vars

\* C19 witness: a second run_migrate, in the project that the first one
\* migrated, has exited with the message that it is migrated already
C19_Witness ==
  /\ pc = "exited"
  /\ status = <<"1">>
  /\ probe[1].created = 1
  /\ DOMAIN manifest # {}
  /\ TemplateDir \notin dirs
  /\ "build-system" \notin DOMAIN pyproject[1]
  /\ stderr[1] = "This project has already been migrated."

----------------------------------------------------------------------------
\* run_smoke_test has ended: it returned, exited or an exception left it
SmokeEnded == probe # <<>> /\ pc \in {"returned", "exited", "raised"}

\* C20, as stated: without build_only, once compose up has succeeded,
\* compose down has run exactly once when run_smoke_test ends, however it
\* ends; with build_only, or when the container was never started, neither
\* up nor down has run.
C20_CleanupExactlyOnce ==
  SmokeEnded =>
    /\ (~Smoke.build_only /\ Smoke.container_started) =>
         Count(Smoke.calls, "down") = 1
    /\ (Smoke.build_only \/ ~Smoke.container_started) =>
         /\ Count(Smoke.calls, "up") = 0
         /\ Count(Smoke.calls, "down") = 0

\* C20, amended: down runs exactly once after a successful up and never
\* otherwise; up is not run with build_only or when the run ends before the
\* start; an up that fails has run once, the exception leaves run_smoke_test
\* and down is not run.
C20_CleanupOnceAfterStart ==
  /\ probe # <<>> =>
       /\ Count(Smoke.calls, "down") <= 1
       /\ Count(Smoke.calls, "up") <= 1
       /\ Count(Smoke.calls, "down") = 1 => Smoke.container_started
       /\ Smoke.container_started => Count(Smoke.calls, "up") = 1
  /\ SmokeEnded =>
       /\ Smoke.container_started => Count(Smoke.calls, "down") = 1
       /\ Smoke.build_only => Count(Smoke.calls, "up") = 0
       /\ (Count(Smoke.calls, "up") = 1 /\ ~Smoke.container_started) =>
            /\ pc = "raised"
            /\ Count(Smoke.calls, "down") = 0

\* C20 witness: the health check timed out after a successful start, the
\* logs were shown, down ran once and the exit code is 1
C20_Witness ==
  /\ pc = "exited"
  /\ probe # <<>>
  /\ Smoke.container_started
  /\ Smoke.seconds_waited >= MAX_WAIT_SECONDS
  /\ status = <<"1">>
  /\ Smoke.calls = <<"build", "up", "port", "logs", "down">>

----------------------------------------------------------------------------
\* C21: in one run_update the plan is made from the files and the manifest
\* before anything is written; only the steps of Apply write files, and they
\* come before the report; the report is echoed in every run that passes the
\* preconditions, dry or not, after Apply and before the manifest rewrite,
\* which is the only step that changes the manifest.
C21_PlanApplyReportManifest ==
  [][(pc # "idle" \/ pc' # "idle") =>
       /\ pc = "idle" =>
            /\ pc' \in {"exited", "apply", "report"}
            /\ fs' = fs /\ dirs' = dirs /\ manifest' = manifest
            /\ pc' = "apply" => ~run'[1].dry_run
       /\ (fs' # fs \/ dirs' # dirs) => pc = "apply"
       /\ pc = "apply" =>
            /\ pc' \in {"apply", "report"}
            /\ run'[1].plan = Cur.plan
            /\ manifest' = manifest
            /\ out' = out
       /\ pc = "report" =>
            /\ pc' \in {"manifest", "done"}
            /\ out' # out
            /\ Cur.i = Len(Cur.plan) + 1 \/ Cur.dry_run
       /\ manifest' # manifest => pc = "manifest"
       /\ pc = "manifest" => pc' = "done" /\ out' = out \o <<Blank, <<"Updating manifest...">> >>
       /\ pc' = "done" => pc \in {"report", "manifest"}]_vars

----------------------------------------------------------------------------
\* The plan has an item that Apply writes to its destination
PlanWrites(plan) == \E k \in 1..Len(plan) : plan[k].action \in {CREATE, UPDATE, FORCE}

\* The line that _update_manifest echoes
UpdatingManifest == <<"Updating manifest...">>
Echoed(line) == \E n \in 1..Len(out) : out[n] = line

\* C22: run_update rewrites the manifest exactly when the run is not a dry
\* run and its plan has a CREATE, UPDATE or FORCE item; in a dry run, with an
\* empty plan and with a plan of SKIP items only the manifest record,
\* tool_version included, stays as it was.
C22_ManifestRewrittenIffWrites ==
  run # NoRun =>
    /\ pc \in {"apply", "report", "manifest"} =>
         manifest = Cur.manifest0 /\ ~Echoed(UpdatingManifest)
    /\ pc = "done" =>
         IF ~Cur.dry_run /\ PlanWrites(Cur.plan)
           THEN /\ Echoed(UpdatingManifest)
                /\ manifest.tool_version = Version
                /\ \A p \in DOMAIN manifest.files :
                     manifest.files[p] = hash_file(fs, Join(ProjectDir, p))
           ELSE /\ ~Echoed(UpdatingManifest)
                /\ manifest = Cur.manifest0
                /\ manifest.tool_version # Version

\* C22 witness: a run that is not a dry run has ended with a plan of SKIP
\* items only, and the manifest still names the release that recorded it
C22_Witness ==
  /\ run # NoRun
  /\ pc = "done"
  /\ ~Cur.dry_run
  /\ Len(Cur.plan) = 5
  /\ \A k \in 1..Len(Cur.plan) : Cur.plan[k].action = SKIP
  /\ manifest = Cur.manifest0
  /\ manifest.tool_version = ToolRelease(1)
  /\ Version = ToolRelease(2)

----------------------------------------------------------------------------
\* C23: the items of the plan that _plan_updates returns are in ascending
\* order of destination path.
C23_PlanSortedByDestination ==
  run # NoRun =>
    \A i \in 1..Len(Cur.plan), j \in 1..Len(Cur.plan) :
      i < j => StrLess(Cur.plan[i].dest_path, Cur.plan[j].dest_path)

----------------------------------------------------------------------------
\* The tracked template sources of a framework that exist in the package
PresentSrcs(framework) ==
  {src \in DOMAIN get_tracked_files(framework) : templates[src] # 0}

\* C24: a tracked file whose template does not exist is left out of the plan
\* without an error, and the plan has exactly one item for every tracked file
\* whose template exists, with dest_full the project directory joined with
\* the destination path.
C24_PlanOneItemPerExistingTemplate ==
  run # NoRun =>
    LET tracked == get_tracked_files(Cur.framework)
    IN /\ pc # "raised"
       /\ Len(Cur.plan) = Cardinality(PresentSrcs(Cur.framework))
       /\ \A src \in DOMAIN tracked :
            Cardinality({k \in 1..Len(Cur.plan) : Cur.plan[k].dest_path = tracked[src]})
              = (IF src \in PresentSrcs(Cur.framework) THEN 1 ELSE 0)
       /\ \A k \in 1..Len(Cur.plan) :
            Cur.plan[k].dest_full = Join(ProjectDir, Cur.plan[k].dest_path)

\* A finished run of a project one of whose templates is missing from the
\* package: the plan has the other four files
C24_Witness ==
  /\ run # NoRun
  /\ pc = "done"
  /\ templates["dev_mocks/dev_mock_user.json"] = 0
  /\ Len(Cur.plan) = 4
  /\ \A k \in 1..4 : Cur.plan[k].dest_path # "dev_mocks/dev_mock_user.json"

----------------------------------------------------------------------------
\* The items of a plan at the positions in S, in plan order
SubPlan(plan, S) ==
  LET F[k \in 0..Len(plan)] ==
        IF k = 0 THEN <<>>
        ELSE IF k \in S THEN Append(F[k - 1], plan[k]) ELSE F[k - 1]
  IN F[Len(plan)]

\* The files a state holds that another does not hold with the same content
Changed(after, before) ==
  [p \in {q \in DOMAIN after : q \notin DOMAIN before \/ after[q] # before[q]} |->
     after[p]]

\* A run that is not a dry run has gone through _apply_updates
AfterApply == run # NoRun /\ ~Cur.dry_run /\ pc \in {"report", "manifest", "done"}

\* C25: _apply_updates a second time with the same plan changes nothing, and
\* what each item of the plan does is the same with or without the other
\* items and in every order of the items.
C25_ApplyIdempotentOrderFree ==
  AfterApply =>
    LET plan == Cur.plan
        n == Len(plan)
        st0 == [fs |-> Cur.fs0, dirs |-> Cur.dirs0, err |-> FALSE]
        once == _apply_updates(st0, plan)
    IN /\ once = [fs |-> fs, dirs |-> dirs, err |-> FALSE]
       /\ _apply_updates(once, plan) = once
       /\ \A perm \in Permutations(1..n) :
            _apply_updates(st0, [k \in 1..n |-> plan[perm[k]]]) = once
       /\ \A S \in SUBSET (1..n) : \A k \in S :
            LET with == _apply_updates(st0, SubPlan(plan, S))
                without == _apply_updates(st0, SubPlan(plan, S \ {k}))
                alone == ApplyItem(st0, plan[k])
            IN /\ with.fs = Changed(alone.fs, st0.fs) @@ without.fs
               /\ with.dirs = without.dirs \cup alone.dirs
               /\ ~with.err

\* _apply_updates has gone through a plan that creates a file, overwrites
\* another and writes a sidecar
C25_Witness ==
  /\ AfterApply
  /\ pc = "done"
  /\ {Cur.plan[k].action : k \in 1..Len(Cur.plan)} = {CREATE, UPDATE, SKIP}
  /\ Len(Cur.plan) = 5
  /\ fs # Cur.fs0

----------------------------------------------------------------------------
\* How many times a line has been echoed
Times(line) == Count(out, line)

\* The lines of the report about a destination path
CreatedLine(dest_path) == <<"  Created: ", dest_path>>
UpdatedLine(dest_path) == <<"  Updated: ", dest_path>>
SkippedLine(dest_path) == <<"  Skipped: ", dest_path, " (locally modified)">>
SidecarLine(dest_path) == <<"    New version written to: ", Sidecar(dest_path)>>

\* The second line of the summary has no count in it
SummaryLine == <<"then rename or delete them when done.">>
NothingLine == <<"  Nothing to update.">>

\* _report_updates has run
Reported == run # NoRun /\ pc \in {"manifest", "done"}

\* C26: the report has one line for every plan item, Created for CREATE,
\* Updated for UPDATE and FORCE, Skipped with the sidecar path for SKIP, and
\* none for a path that is not in the plan; "Nothing to update." is echoed
\* exactly when the plan is empty, the summary of the skipped files exactly
\* when there is a SKIP item and the run is not a dry run.
C26_ReportMatchesPlan ==
  Reported =>
    LET plan == Cur.plan
        Acts(dest_path) == {plan[k].action : k \in {j \in 1..Len(plan) :
                                                     plan[j].dest_path = dest_path}}
        skips == Cardinality({k \in 1..Len(plan) : plan[k].action = SKIP})
    IN /\ \A dest_path \in DestPaths :
            /\ Times(CreatedLine(dest_path)) = (IF Acts(dest_path) = {CREATE} THEN 1 ELSE 0)
            /\ Times(UpdatedLine(dest_path)) =
                 (IF Acts(dest_path) \in {{UPDATE}, {FORCE}} THEN 1 ELSE 0)
            /\ Times(SkippedLine(dest_path)) = (IF Acts(dest_path) = {SKIP} THEN 1 ELSE 0)
            /\ Times(SidecarLine(dest_path)) = Times(SkippedLine(dest_path))
       /\ Times(NothingLine) = (IF plan = <<>> THEN 1 ELSE 0)
       /\ Times(SummaryLine) = (IF skips > 0 /\ ~Cur.dry_run THEN 1 ELSE 0)
       /\ Times(<<ToString(skips),
                  " file(s) were locally modified and skipped. Review the .new files above,">>)
            = Times(SummaryLine)

\* The report of a run that created a file, overwrote another and skipped
\* two
C26_Witness ==
  /\ Reported
  /\ ~Cur.dry_run
  /\ Len(Cur.plan) = 5
  /\ Times(CreatedLine("app_src/Dockerfile")) = 1
  /\ Times(UpdatedLine(".devcontainer/devcontainer.json")) = 1
  /\ Times(SkippedLine("dev_mocks/dev_mock_user.json")) = 1
  /\ Times(SkippedLine("dev_mocks/dev_mock_authoriser.json")) = 1
  /\ Times(SummaryLine) = 1

----------------------------------------------------------------------------
\* C27: in a run without --force no file that already holds the rendered
\* template content is classified SKIP.
C27_UpToDateFileNeverSkipped ==
  (run # NoRun /\ ~Cur.force) =>
    \A k \in 1..Len(Cur.plan) :
      ContentOf(Cur.fs0, Cur.plan[k].dest_full) = Cur.plan[k].new_content =>
        Cur.plan[k].action # SKIP

----------------------------------------------------------------------------
\* C28: a report line "New version written to: <path>.new" is echoed only
\* when the run wrote that sidecar with the rendered content; the report of
\* a dry run has no such line.
C28_SidecarLinesAreTrue ==
  Reported =>
    \A k \in 1..Len(Cur.plan) :
      Times(SidecarLine(Cur.plan[k].dest_path)) > 0 =>
        /\ ~Cur.dry_run
        /\ ContentOf(fs, Sidecar(Cur.plan[k].dest_full)) = Cur.plan[k].new_content

----------------------------------------------------------------------------
\* The user has answered yes to the three prompts of run_migrate
UpdateAccepted(prompts) == prompts = Prompts(TRUE, TRUE, TRUE)

\* C29: the update that run_migrate runs when the user accepts it has no
\* SKIP item and writes no sidecar: every tracked file that exists matches
\* the hash the manifest just built records for it, is classified UPDATE and
\* ends with the rendered template content, whatever it held before.
C29_MigrateUpdateOverwrites ==
  [][(pc = "idle" /\ pc' = "returned" /\ UpdateAccepted(probe'[1].prompts)) =>
       LET webapp == _read_webapp_config(pyproject[1])
           built == _update_manifest(fs, ProjectDir, Version, webapp.framework,
                                     webapp.app_name, _detect_python_version(fs))
           plan == PlanOf(fs, built, templates, FALSE)
       IN /\ Len(plan) = Cardinality(TrackedOf[webapp.framework])
          /\ \A k \in 1..Len(plan) :
               /\ plan[k].action = (IF exists(fs, plan[k].dest_full) THEN UPDATE ELSE CREATE)
               /\ exists(fs, plan[k].dest_full) =>
                    Get(built.files, plan[k].dest_path) = hash_file(fs, plan[k].dest_full)
               /\ fs'[plan[k].dest_full] = plan[k].new_content
               /\ ~exists(fs', Sidecar(plan[k].dest_full))
          /\ \A p \in TrackedOf[webapp.framework] : fs'[p] = Rendered(manifest', p)]_vars

\* run_migrate has returned after the accepted update of a project whose
\* own Dockerfile, from which Python 3.12 was detected, now holds the
\* rendered template
C29_Witness ==
  /\ pc = "returned"
  /\ UpdateAccepted(probe[1].prompts)
  /\ manifest.python_version = <<"3", ".", "12">>
  /\ AppPyproject \notin DOMAIN fs
  /\ fs[DockerfilePath] = Rendered(manifest, DockerfilePath)
  /\ \A p \in TrackedOf[manifest.framework] : ~exists(fs, Sidecar(p))

----------------------------------------------------------------------------
\* The step of run_update that rewrites the manifest section
Rewrites == pc = "manifest" /\ pc' = "done"

\* C30: the rewrite keeps framework, app_name and python_version (3.13 when
\* the section had none) as they were read at the start of the run, sets
\* tool_version to the version of the running tool, also when that is older
\* than the recorded one, and drops every other key of the section.
C30_RewriteKeepsIdentitySetsVersion ==
  [][Rewrites =>
       LET read == Cur.manifest0
       IN /\ manifest'.framework = read.framework
          /\ manifest'.app_name = read.app_name
          /\ manifest'.python_version =
               (IF "python_version" \in DOMAIN read THEN read.python_version
                ELSE <<"3", ".", "13">>)
          /\ manifest'.tool_version = ToolRelease(toolVersion)
          /\ DOMAIN manifest' =
               {"framework", "app_name", "tool_version", "files", "python_version"}]_vars

\* A rewrite by a tool older than the one that recorded the section, which
\* had a key of the user's own and Python 3.12: the recorded tool_version has
\* gone down, the key is gone, 3.12 is kept
C30_Witness ==
  /\ run # NoRun
  /\ pc = "done"
  /\ Echoed(UpdatingManifest)
  /\ Cur.manifest0.tool_version = ToolRelease(toolVersion + 1)
  /\ OwnKey \in DOMAIN Cur.manifest0
  /\ "python_version" \in DOMAIN Cur.manifest0
  /\ Cur.manifest0.python_version = <<"3", ".", "12">>
  /\ manifest.tool_version = ToolRelease(toolVersion)
  /\ OwnKey \notin DOMAIN manifest
  /\ manifest.python_version = <<"3", ".", "12">>

=============================================================================
